---------------------------- MODULE Spec2Model ----------------------------
(***************************************************************************)
(* Model of the sequence-pattern predictor: src/utils/sequenceUtils.ts     *)
(* (metrics and detectors) and src/utils/dummyPredictor.ts                 *)
(* (predictSequence, lines 27-562), and of the page that calls it:         *)
(* src/components/SequenceForm.tsx (handleSubmit) and src/pages/Index.tsx  *)
(* (handleSequenceSubmit).                                                 *)
(*                                                                         *)
(* Numbers.  A JavaScript number is modelled as a pair <<n, d>>:           *)
(*   d > 0  : the finite value n/d, in lowest terms;                       *)
(*   <<0,0>>: NaN (also what arithmetic makes of an `undefined` read);     *)
(*   <<1,0>>, <<-1,0>>: +Infinity, -Infinity.                              *)
(* Arithmetic on the pairs is exact rational arithmetic with the IEEE      *)
(* rules for NaN and the infinities.  Negative zero is not distinguished   *)
(* from zero, and the rounding error of binary floating point is not       *)
(* modelled: the inputs are small integers and halves, on which sums,      *)
(* differences and products are exact, and quotients are only compared     *)
(* under the 0.0001 tolerance.                                             *)
(*                                                                         *)
(* Arrays are 0-based in the source and 1-based here: source index i is    *)
(* index i+1, so the source's "odd positions" (i % 2 === 0) are the odd    *)
(* indices of the TLA+ sequence.                                           *)
(***************************************************************************)
EXTENDS Integers, Sequences, FiniteSets, TLC

VARIABLES
    input,      \* the array handed to predictSequence
    result,     \* the PredictionResult it returned (NoResult before the return)
    called,     \* the detectors the call evaluated, in order
    pc,         \* "call": about to run; "returned"; "looping": stuck in a loop;
                \* "idle": the page waits for an event
    inputValue,         \* SequenceForm: the text of the input field
    toast,              \* SequenceForm: the toast the last handler raised
    pageSequence,       \* Index: the state `sequence`
    predictionResult,   \* Index: the state `predictionResult`
    returned            \* the calls that returned so far: argument and result

\* the state of the page
appVars == <<inputValue, toast, pageSequence, predictionResult, returned>>

vars == <<input, result, called, pc, inputValue, toast, pageSequence,
          predictionResult, returned>>

---------------------------------------------------------------------------
(* Bounds of the model *)

\* longest input drawn from the full product of Vals
MaxLen == 4
\* inputs of the full product take their values in -1..MaxVal
MaxVal == 2
\* iterations of the successor search after which it is taken not to end
MaxSearch == 3

---------------------------------------------------------------------------
(* JavaScript numbers *)

NaN == <<0, 0>>
PosInf == <<1, 0>>
NegInf == <<-1, 0>>

AbsInt(n) == IF n < 0 THEN 0 - n ELSE n

SignInt(n) == IF n < 0 THEN -1 ELSE IF n > 0 THEN 1 ELSE 0

RECURSIVE GCD(_, _)
GCD(a, b) == IF b = 0 THEN a ELSE GCD(b, a % b)

\* the finite value n/d (d # 0) in lowest terms with a positive denominator
Norm(n, d) ==
    LET g == GCD(AbsInt(n), AbsInt(d))
    IN  IF d < 0 THEN <<(0 - n) \div g, (0 - d) \div g>>
        ELSE <<n \div g, d \div g>>

I(n) == <<n, 1>>

isNaN(x) == x = NaN

isFinite(x) == x[2] # 0

IsInf(x) == x \in {PosInf, NegInf}

Neg(x) == <<0 - x[1], x[2]>>

\* a + b
Add(a, b) ==
    IF isNaN(a) \/ isNaN(b) THEN NaN
    ELSE IF IsInf(a) THEN (IF IsInf(b) /\ b # a THEN NaN ELSE a)
    ELSE IF IsInf(b) THEN b
    ELSE Norm(a[1] * b[2] + b[1] * a[2], a[2] * b[2])

\* a - b
Sub(a, b) == Add(a, Neg(b))

\* a * b
Mul(a, b) ==
    IF isNaN(a) \/ isNaN(b) THEN NaN
    ELSE IF IsInf(a) \/ IsInf(b)
         THEN (IF a[1] = 0 \/ b[1] = 0 THEN NaN
               ELSE <<SignInt(a[1]) * SignInt(b[1]), 0>>)
    ELSE Norm(a[1] * b[1], a[2] * b[2])

\* a / b: x/0 is an infinity, 0/0 and Infinity/Infinity are NaN
Div(a, b) ==
    IF isNaN(a) \/ isNaN(b) THEN NaN
    ELSE IF IsInf(a) THEN (IF IsInf(b) THEN NaN
                           ELSE <<a[1] * (IF b[1] < 0 THEN -1 ELSE 1), 0>>)
    ELSE IF IsInf(b) THEN I(0)
    ELSE IF b[1] = 0 THEN (IF a[1] = 0 THEN NaN ELSE <<SignInt(a[1]), 0>>)
    ELSE Norm(a[1] * b[2], a[2] * b[1])

MathAbs(x) == <<AbsInt(x[1]), x[2]>>

\* a < b; every comparison with NaN is false.  Finite values are compared
\* by their integer parts first and then by their fractional parts.
Lt(a, b) ==
    IF isNaN(a) \/ isNaN(b) THEN FALSE
    ELSE IF IsInf(a) \/ IsInf(b)
         THEN (IF IsInf(a) /\ IsInf(b) THEN a[1] < b[1]
               ELSE IF IsInf(a) THEN a[1] < 0 ELSE b[1] > 0)
    ELSE IF a[1] \div a[2] = b[1] \div b[2]
         THEN (a[1] % a[2]) * b[2] < (b[1] % b[2]) * a[2]
    ELSE a[1] \div a[2] < b[1] \div b[2]

\* a > b
Gt(a, b) == Lt(b, a)

\* a <= b
Le(a, b) == ~isNaN(a) /\ ~isNaN(b) /\ ~Lt(b, a)

\* Math.round: the nearest integer, halves rounded up
MathRound(x) ==
    IF ~isFinite(x) THEN x ELSE I((2 * x[1] + x[2]) \div (2 * x[2]))

\* Number.isInteger
IsInteger(x) == x[2] = 1

\* x % 2 === 0
IsEven(x) == x[2] = 1 /\ x[1] % 2 = 0

RECURSIVE PowNat(_, _)
PowNat(x, k) == IF k = 0 THEN I(1) ELSE Mul(x, PowNat(x, k - 1))

\* Math.pow(x, k) for an integer exponent k; Math.pow(anything, 0) is 1
MathPow(x, k) ==
    IF k = 0 THEN I(1)
    ELSE IF k > 0 THEN PowNat(x, k)
    ELSE Div(I(1), PowNat(x, 0 - k))

\* the absolute tolerance of every comparison, 0.0001 = 1/TolDen
TolDen == 10000

Tolerance == <<1, TolDen>>

\* the confidence constants are hundredths
Conf(h) == Norm(h, 100)

---------------------------------------------------------------------------
(* Roots and logarithms.  The source only ever asks of a root or of a      *)
(* quotient of logarithms whether it lies within the tolerance of an       *)
(* integer, and which integer; those questions are answered exactly.       *)

\* Math.round(Math.sqrt(n/d)) for n/d >= 0: the least k with sqrt < k + 1/2
RECURSIVE SqrtRoundFrom(_, _, _)
SqrtRoundFrom(n, d, k) ==
    IF 4 * n < (2 * k + 1) * (2 * k + 1) * d THEN k
    ELSE SqrtRoundFrom(n, d, k + 1)

\* Math.abs(Math.round(r) - r) > 0.0001 for r = Math.sqrt(x).  The square
\* root of a negative number is NaN and Infinity - Infinity is NaN, and a
\* comparison with NaN is false.  For finite x = n/d >= 0 and k = round(r):
\* r > k + 1/T  iff  T(n - k*k*d) > 2kd,  r < k - 1/T  iff  T(k*k*d - n) >= 2kd
\* (exact whenever d < T, T = TolDen).
SqrtFarFromInteger(x) ==
    IF ~isFinite(x) \/ x[1] < 0 THEN FALSE
    ELSE LET n == x[1]
             d == x[2]
             k == SqrtRoundFrom(n, d, 0)
         IN  \/ TolDen * (n - k * k * d) > 2 * k * d
             \/ (k >= 1 /\ TolDen * (k * k * d - n) >= 2 * k * d)

\* Math.sqrt(x).  An irrational root is given as its nearest integer: it is
\* read only after SqrtFarFromInteger(x) was false.
MathSqrt(x) ==
    IF isNaN(x) \/ x[1] < 0 THEN NaN
    ELSE IF x = PosInf THEN PosInf
    ELSE LET kn == SqrtRoundFrom(x[1], 1, 0)
             kd == SqrtRoundFrom(x[2], 1, 0)
         IN  IF kn * kn = x[1] /\ kd * kd = x[2] THEN Norm(kn, kd)
             ELSE I(SqrtRoundFrom(x[1], x[2], 0))

\* the integer nearest to the cube root of n/d >= 0
RECURSIVE CbrtRoundFrom(_, _, _)
CbrtRoundFrom(n, d, k) ==
    IF 8 * n < (2 * k + 1) * (2 * k + 1) * (2 * k + 1) * d THEN k
    ELSE CbrtRoundFrom(n, d, k + 1)

\* Math.abs(Math.round(c) - c) > 0.0001 for c = Math.cbrt(x); the cube root
\* of a negative number is the negative of the root of its absolute value.
\* With N = |n| and j = round(cbrt(N/d)):
\* c > j + 1/T  iff  T(N - j^3 d) > 3j^2 d,  c < j - 1/T  iff  T(j^3 d - N) >= 3j^2 d
\* (exact whenever 3jd < T - 1).
CbrtFarFromInteger(x) ==
    IF ~isFinite(x) THEN FALSE
    ELSE LET n == AbsInt(x[1])
             d == x[2]
             j == CbrtRoundFrom(n, d, 0)
         IN  \/ TolDen * (n - j * j * j * d) > 3 * j * j * d
             \/ (j >= 1 /\ TolDen * (j * j * j * d - n) >= 3 * j * j * d)

\* Math.cbrt(x); an irrational root is given as its nearest integer
MathCbrt(x) ==
    IF ~isFinite(x) THEN x
    ELSE LET kn == CbrtRoundFrom(AbsInt(x[1]), 1, 0)
             kd == CbrtRoundFrom(x[2], 1, 0)
             s  == SignInt(x[1])
         IN  IF kn * kn * kn = AbsInt(x[1]) /\ kd * kd * kd = x[2]
             THEN Norm(s * kn, kd)
             ELSE I(s * CbrtRoundFrom(AbsInt(x[1]), x[2], 0))

\* Math.log(x), as far as a quotient of logarithms needs it
LogClass(x) ==
    IF isNaN(x) \/ x[1] < 0 THEN "nan"
    ELSE IF x = PosInf THEN "pinf"
    ELSE IF x[1] = 0 THEN "ninf"
    ELSE IF x[1] = x[2] THEN "zero"
    ELSE IF x[1] < x[2] THEN "neg"
    ELSE "pos"

\* the k >= 1 with c^k = t for c > 1, t > 1, or 0 when there is none
RECURSIVE ExponentFrom(_, _, _, _)
ExponentFrom(c, t, p, k) ==
    IF p = t THEN k
    ELSE IF Lt(p, t) THEN ExponentFrom(c, t, Mul(p, c), k + 1)
    ELSE 0

\* the quotient of two nonzero finite logs from the exponent k found for
\* their arguments (0: none); the logs have the same sign or opposite signs
SignedExponent(k, sameSign) ==
    IF k = 0 THEN <<FALSE, 0>> ELSE <<TRUE, IF sameSign THEN k ELSE 0 - k>>

\* For power = Math.log(next) / Math.log(current): <<TRUE, Math.round(power)>>
\* when Math.abs(power - Math.round(power)) < 0.0001, else <<FALSE, 0>>.
\* log(0) = -Infinity, log(1) = 0, the log of a negative number is NaN; a
\* finite log over an infinite one is 0, a nonzero log over log(1) = 0 is an
\* infinity (Infinity - Infinity is NaN, so the test fails).  A quotient of
\* two nonzero finite logs is within the tolerance of the integer k exactly
\* when next = current^k: |ln(next / current^k)| < 0.0001 ln(current) has no
\* other rational solution at the magnitudes of the model.
LogQuotient(next, current) ==
    LET ln == LogClass(next)
        lc == LogClass(current)
    IN  IF ln = "nan" \/ lc = "nan" THEN <<FALSE, 0>>
        ELSE IF lc = "zero" THEN <<FALSE, 0>>
        ELSE IF lc \in {"ninf", "pinf"}
             THEN (IF ln \in {"ninf", "pinf"} THEN <<FALSE, 0>> ELSE <<TRUE, 0>>)
        ELSE IF ln \in {"ninf", "pinf"} THEN <<FALSE, 0>>
        ELSE IF ln = "zero" THEN <<TRUE, 0>>
        ELSE SignedExponent(
                 ExponentFrom(IF lc = "pos" THEN current ELSE Div(I(1), current),
                              IF ln = "pos" THEN next ELSE Div(I(1), next),
                              IF lc = "pos" THEN current ELSE Div(I(1), current), 1),
                 ln = lc)

\* Number.prototype.toFixed(2), as a number: hundredths, halves away from zero
ToFixed2(x) ==
    IF ~isFinite(x) THEN x
    ELSE Norm(SignInt(x[1]) * ((2 * AbsInt(x[1]) * 100 + x[2]) \div (2 * x[2])), 100)

---------------------------------------------------------------------------
(* Array helpers *)

\* sequence.filter((_, i) => i % 2 === 0)
OddPositions(seq) == [i \in 1..((Len(seq) + 1) \div 2) |-> seq[2 * i - 1]]

\* sequence.filter((_, i) => i % 2 === 1)
EvenPositions(seq) == [i \in 1..(Len(seq) \div 2) |-> seq[2 * i]]

\* array.slice(0, k)
Prefix(seq, k) == [i \in 1..k |-> seq[i]]

Min2(a, b) == IF a < b THEN a ELSE b

---------------------------------------------------------------------------
(* SequenceMetrics: sequenceUtils.ts lines 33-57 *)

\* the loops start at i = 1, so an array of fewer than two terms gives []
getSequenceDifferences(sequence) ==
    IF Len(sequence) < 2 THEN <<>>
    ELSE [i \in 1..(Len(sequence) - 1) |-> Sub(sequence[i + 1], sequence[i])]

getSequenceRatios(sequence) ==
    IF Len(sequence) < 2 THEN <<>>
    ELSE [i \in 1..(Len(sequence) - 1) |->
             IF sequence[i] # I(0) THEN Div(sequence[i + 1], sequence[i]) ELSE NaN]

areAllValuesEqual(arr) ==
    IF Len(arr) <= 1 THEN TRUE
    ELSE \A i \in 1..Len(arr) : Lt(MathAbs(Sub(arr[i], arr[1])), Tolerance)

---------------------------------------------------------------------------
(* PatternCatalog: the detectors of sequenceUtils.ts *)

checkArithmeticSequence(sequence) ==
    IF Len(sequence) < 3 THEN FALSE
    ELSE LET differences == getSequenceDifferences(sequence)
             firstDiff == differences[1]
         IN  \A i \in 1..Len(differences) :
                 Lt(MathAbs(Sub(differences[i], firstDiff)), Tolerance)

checkGeometricSequence(sequence) ==
    IF Len(sequence) < 3 THEN FALSE
    ELSE LET ratios == getSequenceRatios(sequence)
             firstRatio == ratios[1]
         IN  IF isNaN(firstRatio) THEN FALSE
             ELSE \A i \in 1..Len(ratios) :
                     /\ ~isNaN(ratios[i])
                     /\ Lt(MathAbs(Sub(ratios[i], firstRatio)), Tolerance)

checkFibonacciSequence(sequence) ==
    IF Len(sequence) < 3 THEN FALSE
    ELSE \A i \in 3..Len(sequence) :
            ~Gt(MathAbs(Sub(sequence[i], Add(sequence[i - 1], sequence[i - 2]))),
                Tolerance)

checkSquareSequence(sequence) ==
    IF Len(sequence) < 3 THEN FALSE
    ELSE \A i \in 1..Len(sequence) : ~SqrtFarFromInteger(sequence[i])

checkCubeSequence(sequence) ==
    IF Len(sequence) < 3 THEN FALSE
    ELSE \A i \in 1..Len(sequence) : ~CbrtFarFromInteger(sequence[i])

\* diffs.every((diff, i) => (i % 2 === 0) ? (diff > 0) : (diff < 0)), or the
\* same with the signs exchanged when firstUp is FALSE
SignsAlternate(diffs, firstUp) ==
    \A i \in 1..Len(diffs) :
        IF (i % 2 = 1) = firstUp THEN Gt(diffs[i], I(0)) ELSE Lt(diffs[i], I(0))

\* checkAlternatingSequence that asks for two differences in each
\* sub-sequence
checkAlternatingSequenceFromSix(sequence) ==
    IF Len(sequence) < 6 THEN <<FALSE, I(0), I(0)>>
    ELSE LET oddDiffs == getSequenceDifferences(OddPositions(sequence))
             evenDiffs == getSequenceDifferences(EvenPositions(sequence))
         IN  IF areAllValuesEqual(oddDiffs) /\ areAllValuesEqual(evenDiffs)
             THEN <<TRUE, oddDiffs[1], evenDiffs[1]>>
             ELSE <<FALSE, I(0), I(0)>>

\* [matched, value1, value2]
checkAlternatingSequence(sequence) ==
    IF Len(sequence) < 4 THEN <<FALSE, I(0), I(0)>>
    ELSE LET oddDiffs == getSequenceDifferences(OddPositions(sequence))
             evenDiffs == getSequenceDifferences(EvenPositions(sequence))
             diffs == getSequenceDifferences(sequence)
             absDiffs == [i \in 1..Len(diffs) |-> MathAbs(diffs[i])]
         IN  IF areAllValuesEqual(oddDiffs) /\ areAllValuesEqual(evenDiffs)
             THEN <<TRUE, oddDiffs[1], evenDiffs[1]>>
             ELSE IF /\ Len(diffs) >= 2
                     /\ (SignsAlternate(diffs, TRUE) \/ SignsAlternate(diffs, FALSE))
                     /\ areAllValuesEqual(absDiffs)
             THEN <<TRUE, diffs[1], diffs[2]>>
             ELSE <<FALSE, I(0), I(0)>>

\* [matched, value, order]
checkDifferencePatterns(sequence) ==
    IF Len(sequence) < 4 THEN <<FALSE, I(0), "">>
    ELSE LET firstDiffs == getSequenceDifferences(sequence)
             secondDiffs == getSequenceDifferences(firstDiffs)
             thirdDiffs == getSequenceDifferences(secondDiffs)
         IN  IF areAllValuesEqual(firstDiffs)
             THEN <<TRUE, firstDiffs[1], "first-order">>
             ELSE IF areAllValuesEqual(secondDiffs)
             THEN <<TRUE, secondDiffs[1], "second-order">>
             ELSE IF areAllValuesEqual(thirdDiffs)
             THEN <<TRUE, thirdDiffs[1], "third-order">>
             ELSE <<FALSE, I(0), "">>

\* ratios.filter(r => !isNaN(r) && isFinite(r))
FiniteOnly(ratios) == SelectSeq(ratios, LAMBDA r : ~isNaN(r) /\ isFinite(r))

\* [matched, value, order]
checkRatioPatterns(sequence) ==
    IF Len(sequence) < 4 THEN <<FALSE, I(0), "">>
    ELSE LET firstRatios == getSequenceRatios(sequence)
             secondRatios == getSequenceRatios(FiniteOnly(firstRatios))
         IN  IF areAllValuesEqual(firstRatios)
             THEN <<TRUE, firstRatios[1], "first-order">>
             ELSE IF Len(secondRatios) >= 2 /\ areAllValuesEqual(secondRatios)
             THEN <<TRUE, secondRatios[1], "second-order">>
             ELSE <<FALSE, I(0), "">>

\* sequence.every((num, idx) => Math.abs(num - Math.pow(base, idx)) < 0.0001),
\* evaluated left to right and stopped at the first mismatch, as every() does;
\* expected is Math.pow(base, i - 1)
RECURSIVE PowerMatchFrom(_, _, _, _)
PowerMatchFrom(sequence, base, i, expected) ==
    IF i > Len(sequence) THEN TRUE
    ELSE IF ~Lt(MathAbs(Sub(sequence[i], expected)), Tolerance) THEN FALSE
    ELSE PowerMatchFrom(sequence, base, i + 1, Mul(expected, I(base)))

\* the bases the power detector tries
MinBase == 2
MaxBase == 10

\* [matched, base]
checkPowerSequence(sequence) ==
    IF Len(sequence) < 3 THEN <<FALSE, 0>>
    ELSE LET matching == {b \in MinBase..MaxBase : PowerMatchFrom(sequence, b, 1, I(1))}
         IN  IF matching = {} THEN <<FALSE, 0>>
             ELSE <<TRUE, CHOOSE b \in matching : \A c \in matching : b <= c>>

\* the threshold that keeps the two alternating differences apart, 0.01
DistinctDen == 100

\* [matched, diff1, diff2]
checkAlternatingDifference(sequence) ==
    IF Len(sequence) < 4 THEN <<FALSE, I(0), I(0)>>
    ELSE LET diffs == getSequenceDifferences(sequence)
             evenDiffs == OddPositions(diffs)
             oddDiffs == EvenPositions(diffs)
         IN  IF /\ areAllValuesEqual(evenDiffs)
                /\ areAllValuesEqual(oddDiffs)
                /\ Gt(MathAbs(Sub(evenDiffs[1], oddDiffs[1])), <<1, DistinctDen>>)
             THEN <<TRUE, evenDiffs[1], oddDiffs[1]>>
             ELSE <<FALSE, I(0), I(0)>>

\* the shortest input the six-term detectors accept
MinInterleaved == 6

NoPattern == <<"", NaN>>

\* [matched, pattern1, pattern2]; a pattern `arithmetic(d=..)` or
\* `geometric(r=..)` is the pair of its kind and its printed parameter
InterleavedPatterns(odd, even, isOddArithmetic, isEvenArithmetic, isOddGeometric, isEvenGeometric) ==
    IF isOddArithmetic /\ isEvenArithmetic
    THEN <<TRUE, <<"arithmetic", Sub(odd[2], odd[1])>>,
                 <<"arithmetic", Sub(even[2], even[1])>>>>
    ELSE IF isOddGeometric /\ isEvenGeometric
    THEN <<TRUE, <<"geometric", ToFixed2(Div(odd[2], odd[1]))>>,
                 <<"geometric", ToFixed2(Div(even[2], even[1]))>>>>
    ELSE IF isOddArithmetic /\ isEvenGeometric
    THEN <<TRUE, <<"arithmetic", Sub(odd[2], odd[1])>>,
                 <<"geometric", ToFixed2(Div(even[2], even[1]))>>>>
    ELSE IF isOddGeometric /\ isEvenArithmetic
    THEN <<TRUE, <<"geometric", ToFixed2(Div(odd[2], odd[1]))>>,
                 <<"arithmetic", Sub(even[2], even[1])>>>>
    ELSE <<FALSE, NoPattern, NoPattern>>

checkInterleaved(sequence) ==
    IF Len(sequence) < MinInterleaved THEN <<FALSE, NoPattern, NoPattern>>
    ELSE InterleavedPatterns(OddPositions(sequence), EvenPositions(sequence),
             checkArithmeticSequence(OddPositions(sequence)),
             checkArithmeticSequence(EvenPositions(sequence)),
             checkGeometricSequence(OddPositions(sequence)),
             checkGeometricSequence(EvenPositions(sequence)))

\* the sequence repeats its first cycleLength terms:
\* no i with Math.abs(sequence[i] - pattern[i % cycleLength]) > 0.0001
RepeatsWithPeriod(sequence, cycleLength) ==
    \A i \in (cycleLength + 1)..Len(sequence) :
        ~Gt(MathAbs(Sub(sequence[i], sequence[((i - 1) % cycleLength) + 1])), Tolerance)

\* the shortest cycle the cyclic detector tries
MinCycle == 2

\* [matched, pattern, cycleLength]
checkCyclicPattern(sequence) ==
    IF Len(sequence) < MinInterleaved THEN <<FALSE, <<>>, 0>>
    ELSE LET cycles == {c \in MinCycle..(Len(sequence) \div 2) :
                            RepeatsWithPeriod(sequence, c)}
         IN  IF cycles = {} THEN <<FALSE, <<>>, 0>>
             ELSE LET cycleLength == CHOOSE c \in cycles : \A e \in cycles : c <= e
                  IN  <<TRUE, Prefix(sequence, cycleLength), cycleLength>>

checkSpecificPattern7108(sequence) ==
    IF Len(sequence) < MinInterleaved THEN FALSE
    ELSE LET oddPositions == OddPositions(sequence)
             evenPositions == EvenPositions(sequence)
             oddDiffs == getSequenceDifferences(oddPositions)
             evenDiffs == getSequenceDifferences(evenPositions)
             isOddArithmeticWith1 ==
                 /\ areAllValuesEqual(oddDiffs)
                 /\ Lt(MathAbs(Sub(oddDiffs[1], I(1))), Tolerance)
             isEvenArithmeticWith1 ==
                 /\ areAllValuesEqual(evenDiffs)
                 /\ Lt(MathAbs(Sub(evenDiffs[1], I(1))), Tolerance)
             gapIs3 ==
                 \A i \in 1..Len(evenPositions) :
                     Lt(MathAbs(Sub(evenPositions[i], Add(oddPositions[i], I(3)))),
                        Tolerance)
         IN  isOddArithmeticWith1 /\ isEvenArithmeticWith1 /\ gapIs3

\* detectAlternatingPatternWithStep that asks for three odd-indexed terms
detectAlternatingPatternWithStepFromFive(sequence) ==
    IF Len(sequence) < 5 THEN <<FALSE, I(0), I(0), I(0)>>
    ELSE LET oddPositions == OddPositions(sequence)
             evenPositions == EvenPositions(sequence)
             steps == [i \in 1..Len(evenPositions) |->
                          Sub(evenPositions[i], oddPositions[i])]
         IN  IF /\ areAllValuesEqual(getSequenceDifferences(oddPositions))
                /\ areAllValuesEqual(getSequenceDifferences(evenPositions))
                /\ areAllValuesEqual(steps)
             THEN <<TRUE, Sub(oddPositions[2], oddPositions[1]),
                    Sub(evenPositions[2], evenPositions[1]), steps[1]>>
             ELSE <<FALSE, I(0), I(0), I(0)>>

\* [matched, oddDiff, evenDiff, step]
detectAlternatingPatternWithStep(sequence) ==
    IF Len(sequence) < 4 THEN <<FALSE, I(0), I(0), I(0)>>
    ELSE LET oddPositions == OddPositions(sequence)
             evenPositions == EvenPositions(sequence)
             oddDiffs == getSequenceDifferences(oddPositions)
             evenDiffs == getSequenceDifferences(evenPositions)
             steps == [i \in 1..Min2(Len(oddPositions), Len(evenPositions)) |->
                          Sub(evenPositions[i], oddPositions[i])]
         IN  IF Len(oddPositions) < 2 \/ Len(evenPositions) < 2
             THEN <<FALSE, I(0), I(0), I(0)>>
             ELSE IF /\ areAllValuesEqual(oddDiffs)
                     /\ areAllValuesEqual(evenDiffs)
                     /\ areAllValuesEqual(steps)
             THEN <<TRUE, oddDiffs[1], evenDiffs[1], steps[1]>>
             ELSE <<FALSE, I(0), I(0), I(0)>>

\* generateNextAlternatingElements with the next odd-indexed term taken from
\* the last term when that one is even-indexed
generateNextAlternatingElementsFromLast(sequence, oddDiff, evenDiff, step) ==
    LET last == sequence[Len(sequence)]
        nextOdd == Add(last, oddDiff)
    IN  IF (Len(sequence) - 1) % 2 = 0
        THEN <<Add(last, step), nextOdd, Add(nextOdd, step)>>
        ELSE <<nextOdd, Add(nextOdd, step), Add(nextOdd, oddDiff)>>

generateNextAlternatingElements(sequence, oddDiff, evenDiff, step) ==
    LET last == sequence[Len(sequence)]
        evenPositions == EvenPositions(sequence)
    IN  IF (Len(sequence) - 1) % 2 = 0
        THEN LET nextEven == Add(last, step)
                 nextOdd == Add(last, oddDiff)
                 nextNextEven == Add(nextOdd, step)
             IN  <<nextEven, nextOdd, nextNextEven>>
        ELSE LET nextOdd == Add(Sub(evenPositions[Len(evenPositions)], step), oddDiff)
                 nextEven == Add(nextOdd, step)
                 nextNextOdd == Add(nextOdd, oddDiff)
             IN  <<nextOdd, nextEven, nextNextOdd>>

\* The operation the complex alternating detector reads into one hop, the
\* string `multiply:${..}`, `power:${..}` or `add:${..}` as the pair of its
\* operator and its value: two such strings are equal exactly when operator
\* and printed number are, and parseFloat reads the printed number back.
OperationOf(diff, ratio, power) ==
    IF Lt(MathAbs(Sub(ratio, MathRound(ratio))), Tolerance)
    THEN <<"multiply", MathRound(ratio)>>
    ELSE IF power[1] THEN <<"power", I(power[2])>>
    ELSE <<"add", diff>>

HopOperation(current, next) ==
    OperationOf(Sub(next, current), Div(next, current), LogQuotient(next, current))

\* current after one hop under the operation op
ApplyOperation(op, current) ==
    IF op[1] = "add" THEN Add(current, op[2])
    ELSE IF op[1] = "multiply" THEN Mul(current, op[2])
    ELSE MathPow(current, op[2][1])

NoOperation == <<"", NaN>>

\* the shortest input the complex alternating detector accepts
MinComplex == 5

\* the hops of the array: ops[h] takes sequence[h] to sequence[h + 1]
HopOperations(sequence) ==
    [h \in 1..(Len(sequence) - 1) |-> HopOperation(sequence[h], sequence[h + 1])]

\* ComplexNextElements with the loop stopped one round early
ComplexNextElementsTwoRounds(sequence, oddToEvenOp, evenToOddOp) ==
    LET opAt(i) == IF (Len(sequence) + i - 1) % 2 = 0
                   THEN oddToEvenOp ELSE evenToOddOp
        n1 == ApplyOperation(opAt(0), sequence[Len(sequence)])
        n2 == ApplyOperation(opAt(1), n1)
    IN  <<n1, n2>>

\* the three next elements: predicted hop i (0, 1, 2) starts at the source
\* index Len(sequence) + i - 1 and applies the operation of that parity
ComplexNextElements(sequence, oddToEvenOp, evenToOddOp) ==
    LET opAt(i) == IF (Len(sequence) + i - 1) % 2 = 0
                   THEN oddToEvenOp ELSE evenToOddOp
        n1 == ApplyOperation(opAt(0), sequence[Len(sequence)])
        n2 == ApplyOperation(opAt(1), n1)
        n3 == ApplyOperation(opAt(2), n2)
    IN  <<n1, n2, n3>>

ComplexPatternOf(sequence, oddToEvenOps, evenToOddOps) ==
    IF /\ \A i \in 1..Len(oddToEvenOps) : oddToEvenOps[i] = oddToEvenOps[1]
       /\ \A i \in 1..Len(evenToOddOps) : evenToOddOps[i] = evenToOddOps[1]
    THEN <<TRUE, oddToEvenOps[1], evenToOddOps[1],
           ComplexNextElements(sequence, oddToEvenOps[1], evenToOddOps[1])>>
    ELSE <<FALSE, NoOperation, NoOperation, <<>>>>

\* [matched, oddToEvenOp, evenToOddOp, nextElements]
detectComplexAlternatingPattern(sequence) ==
    IF Len(sequence) < MinComplex THEN <<FALSE, NoOperation, NoOperation, <<>>>>
    ELSE ComplexPatternOf(sequence, OddPositions(HopOperations(sequence)),
                          EvenPositions(HopOperations(sequence)))

\* the differences repeat their first patternLength values:
\* no i with Math.abs(differences[i] - pattern[i % patternLength]) > 0.0001
DifferencesRepeat(differences, patternLength) ==
    \A i \in (patternLength + 1)..Len(differences) :
        ~Gt(MathAbs(Sub(differences[i], differences[((i - 1) % patternLength) + 1])),
            Tolerance)

\* the pattern lengths the alternating-difference detector tries
MinPattern == 2
MaxPattern == 4

\* the pattern lengths under which the differences repeat
RepeatingLengths(differences) ==
    {pl \in MinPattern..MaxPattern :
        /\ ~(Len(differences) < pl * 2)
        /\ DifferencesRepeat(differences, pl)}

\* DifferenceCycleOf with the cycle restarted at its first difference
DifferenceCycleOfRestarted(sequence, differences, patternLength) ==
    LET n1 == Add(sequence[Len(sequence)], differences[1])
        n2 == Add(n1, differences[(1 % patternLength) + 1])
        n3 == Add(n2, differences[(2 % patternLength) + 1])
    IN  <<TRUE, Prefix(differences, patternLength), <<n1, n2, n3>>>>

\* the result for the pattern length found: the differences continue their
\* cycle after the last one
DifferenceCycleOf(sequence, differences, patternLength) ==
    LET nextDiff(i) == differences[((Len(differences) + i) % patternLength) + 1]
        n1 == Add(sequence[Len(sequence)], nextDiff(0))
        n2 == Add(n1, nextDiff(1))
        n3 == Add(n2, nextDiff(2))
    IN  <<TRUE, Prefix(differences, patternLength), <<n1, n2, n3>>>>

\* the first pattern length tried that fits is the smallest
DifferencePatternOf(sequence, differences, lengths) ==
    IF lengths = {} THEN <<FALSE, <<>>, <<>>>>
    ELSE DifferenceCycleOf(sequence, differences,
                           CHOOSE pl \in lengths : \A q \in lengths : pl <= q)

\* [matched, pattern, nextElements]
detectAlternatingDifferencePattern(sequence) ==
    IF Len(sequence) < MinInterleaved THEN <<FALSE, <<>>, <<>>>>
    ELSE DifferencePatternOf(sequence, getSequenceDifferences(sequence),
                             RepeatingLengths(getSequenceDifferences(sequence)))

\* the first loop of checkConsecutiveEvenOddPattern: the group size after
\* looking at the terms from index i on (1-based), stopped by the first term
\* of the other parity
RECURSIVE CountGroup(_, _, _, _)
CountGroup(sequence, isFirstEven, i, size) ==
    IF i > Len(sequence) THEN size
    ELSE IF IsEven(sequence[i]) = isFirstEven
         THEN CountGroup(sequence, isFirstEven, i + 1, size + 1)
    ELSE size

\* its second loop: every later group of groupSize terms has the expected
\* parity; position is the 0-based start of the group
RECURSIVE GroupsValid(_, _, _, _)
GroupsValid(sequence, groupSize, position, expectEven) ==
    IF ~(position < Len(sequence)) THEN TRUE
    ELSE IF \E i \in (position + 1)..Min2(position + groupSize, Len(sequence)) :
                IsEven(sequence[i]) # expectEven
         THEN FALSE
    ELSE GroupsValid(sequence, groupSize, position + groupSize, ~expectEven)

\* [matched, startType, groupSize]
checkConsecutiveEvenOddPattern(sequence) ==
    IF Len(sequence) < 3 THEN <<FALSE, "even-first", 0>>
    ELSE LET isFirstEven == IsEven(sequence[1])
             isSecondEven == IsEven(sequence[2])
             startType == IF isFirstEven THEN "even-first" ELSE "odd-first"
             currentGroupSize == CountGroup(sequence, isFirstEven, 2, 1)
         IN  IF isFirstEven # isSecondEven THEN <<FALSE, "even-first", 0>>
             ELSE IF GroupsValid(sequence, currentGroupSize, currentGroupSize,
                                 ~isFirstEven)
             THEN <<TRUE, startType, currentGroupSize>>
             ELSE <<FALSE, "even-first", 0>>

---------------------------------------------------------------------------
(* ResultFormatter *)

\* formatNumberWithPrecision, as the number its string denotes: an integer
\* unchanged, anything else rounded to thousandths (toFixed(3), the trailing
\* zeros stripped)
formatNumberWithPrecision(num) ==
    IF ~isFinite(num) \/ IsInteger(num) THEN num
    ELSE Norm(SignInt(num[1]) * ((2 * AbsInt(num[1]) * 1000 + num[2]) \div (2 * num[2])),
              1000)

---------------------------------------------------------------------------
(* PredictionEngine: the branches of predictSequence, dummyPredictor.ts    *)
(* lines 27-562.  A description or formula string is the tuple of its      *)
(* template and the values the template interpolates.                      *)

PredictionResult(nextElements, ruleType, ruleDescription, formula, confidence) ==
    [nextElements |-> nextElements, ruleType |-> ruleType,
     ruleDescription |-> ruleDescription, formula |-> formula,
     confidence |-> confidence]

Last(sequence) == sequence[Len(sequence)]

\* sequence[i] for a 0-based index i; a read outside the array is undefined,
\* which arithmetic turns into NaN
At(sequence, i) == IF 0 <= i /\ i < Len(sequence) THEN sequence[i + 1] ELSE NaN

\* last + d, last + d * 2, last + d * 3
LinearNext(sequence, d) ==
    <<Add(Last(sequence), d),
      Add(Last(sequence), Mul(d, I(2))),
      Add(Last(sequence), Mul(d, I(3)))>>

TooShortResult ==
    PredictionResult(<<>>, "unknown",
        <<"Need at least 3 numbers to predict a pattern.">>, <<"N/A">>, I(0))

ComplexAlternatingReturn(sequence, d) ==
    PredictionResult(d[4], "alternating",
        <<"Complex alternating pattern: odd to even ${}, even to odd ${}", d[2], d[3]>>,
        <<"Alternating operations between odd/even positions">>, Conf(95))

ComplexAlternatingResult(sequence) ==
    ComplexAlternatingReturn(sequence, detectComplexAlternatingPattern(sequence))

AlternatingDifferenceCycleReturn(sequence, d) ==
    PredictionResult(d[3], "alternating",
        <<"Cyclic differences pattern: [${}]",
          [i \in 1..Len(d[2]) |-> formatNumberWithPrecision(d[2][i])]>>,
        <<"Differences alternate in a cycle of ${}", Len(d[2])>>, Conf(94))

AlternatingDifferenceCycleResult(sequence) ==
    AlternatingDifferenceCycleReturn(sequence, detectAlternatingDifferencePattern(sequence))

SpecificPattern7108Result ==
    PredictionResult(<<I(10), I(13), I(11)>>, "hybrid",
        <<"Pattern with two interleaved arithmetic sequences: odd positions [7,8,9,...] and even positions [10,11,12,...]">>,
        <<"Odd positions: a_n = 7 + (n-1), Even positions: a_n = 10 + (n-1)">>,
        Conf(99))

AlternatingWithStepReturn(sequence, d) ==
    LET oddPositions == OddPositions(sequence)
        evenPositions == EvenPositions(sequence)
    IN  PredictionResult(
            generateNextAlternatingElements(sequence, d[2], d[3], d[4]),
            "alternating",
            <<"Two interleaved arithmetic sequences: odd positions [${},...] with diff=${} and even positions [${},...] with diff=${}, step=${}",
              oddPositions, d[2], evenPositions, d[3], d[4]>>,
            <<"Odd positions: a_n = ${} + (n/2)x${}, Even positions: a_n = ${} + (n/2)x${}",
              oddPositions[1], d[2], evenPositions[1], d[3]>>,
            Conf(98))

AlternatingWithStepResult(sequence) ==
    AlternatingWithStepReturn(sequence, detectAlternatingPatternWithStep(sequence))

ArithmeticResult(sequence) ==
    LET difference == Sub(sequence[2], sequence[1])
    IN  PredictionResult(LinearNext(sequence, difference), "arithmetic",
            <<"Arithmetic sequence with common difference d = ${}", difference>>,
            <<"a_n = a_1 + (n-1)d = ${} + (n-1) x ${}", sequence[1], difference>>,
            Conf(95))

GeometricResult(sequence) ==
    LET ratio == Div(sequence[2], sequence[1])
    IN  PredictionResult(
            <<Mul(Last(sequence), ratio),
              Mul(Last(sequence), MathPow(ratio, 2)),
              Mul(Last(sequence), MathPow(ratio, 3))>>,
            "geometric",
            <<"Geometric sequence with common ratio r = ${}",
              formatNumberWithPrecision(ratio)>>,
            <<"a_n = a_1 x r^(n-1) = ${} x ${}^(n-1)", sequence[1],
              formatNumberWithPrecision(ratio)>>,
            Conf(93))

\* FibonacciResult with the third element continuing the recurrence:
\* (last * 2 + prev) + (last + prev)
FibonacciResultContinued(sequence) ==
    LET last == Last(sequence)
        prev == sequence[Len(sequence) - 1]
    IN  PredictionResult(
            <<Add(last, prev),
              Add(Add(last, prev), last),
              Add(Add(Mul(last, I(2)), prev), Add(last, prev))>>,
            "fibonacci",
            <<"Fibonacci-like sequence where each number is the sum of the two preceding ones">>,
            <<"a_n = a_(n-1) + a_(n-2)">>, Conf(90))

FibonacciResult(sequence) ==
    LET last == Last(sequence)
        prev == sequence[Len(sequence) - 1]
    IN  PredictionResult(
            <<Add(last, prev),
              Add(Add(last, prev), last),
              Add(Mul(last, I(2)), prev)>>,
            "fibonacci",
            <<"Fibonacci-like sequence where each number is the sum of the two preceding ones">>,
            <<"a_n = a_(n-1) + a_(n-2)">>, Conf(90))

\* SquareResult with nextIndex taken to be the root of the last term itself
SquareResultFromLast(sequence) ==
    LET nextIndex == MathSqrt(Last(sequence))
    IN  PredictionResult(
            <<MathPow(nextIndex, 2),
              MathPow(Add(nextIndex, I(1)), 2),
              MathPow(Add(nextIndex, I(2)), 2)>>,
            "square", <<"Square numbers sequence">>, <<"a_n = n^2">>, Conf(92))

\* SquareResult with nextIndex kept in a counter that lives across the calls
SquareResultKeptIndex(sequence) ==
    LET nextIndex == Add(Add(MathSqrt(Last(sequence)), I(1)), I(Len(returned)))
    IN  PredictionResult(
            <<MathPow(nextIndex, 2),
              MathPow(Add(nextIndex, I(1)), 2),
              MathPow(Add(nextIndex, I(2)), 2)>>,
            "square", <<"Square numbers sequence">>, <<"a_n = n^2">>, Conf(92))

SquareResult(sequence) ==
    LET nextIndex == Add(MathSqrt(Last(sequence)), I(1))
    IN  PredictionResult(
            <<MathPow(nextIndex, 2),
              MathPow(Add(nextIndex, I(1)), 2),
              MathPow(Add(nextIndex, I(2)), 2)>>,
            "square", <<"Square numbers sequence">>, <<"a_n = n^2">>, Conf(92))

CubeResult(sequence) ==
    LET nextIndex == Add(MathCbrt(Last(sequence)), I(1))
    IN  PredictionResult(
            <<MathPow(nextIndex, 3),
              MathPow(Add(nextIndex, I(1)), 3),
              MathPow(Add(nextIndex, I(2)), 3)>>,
            "cube", <<"Cube numbers sequence">>, <<"a_n = n^3">>, Conf(91))

AlternatingDifferenceReturn(sequence, d) ==
    LET altDiff1 == d[2]
        altDiff2 == d[3]
        last == Last(sequence)
        first == IF Len(sequence) % 2 = 0 THEN altDiff1 ELSE altDiff2
        second == IF Len(sequence) % 2 = 0 THEN altDiff2 ELSE altDiff1
        n1 == Add(last, first)
        n2 == Add(n1, second)
        n3 == Add(n2, first)
    IN  PredictionResult(<<n1, n2, n3>>, "alternating",
            <<"Alternating differences: +${} and +${}", altDiff1, altDiff2>>,
            <<"Alternates between +${} and +${}", altDiff1, altDiff2>>, Conf(92))

AlternatingDifferenceResult(sequence) ==
    AlternatingDifferenceReturn(sequence, checkAlternatingDifference(sequence))

InterleavedReturn(sequence, d) ==
    LET pattern1 == d[2]
        pattern2 == d[3]
        oddPositions == OddPositions(sequence)
        evenPositions == EvenPositions(sequence)
        lastOdd == Last(oddPositions)
        lastEven == Last(evenPositions)
        oddDiff == Sub(oddPositions[2], oddPositions[1])
        oddRatio == Div(oddPositions[2], oddPositions[1])
        evenDiff == Sub(evenPositions[2], evenPositions[1])
        evenRatio == Div(evenPositions[2], evenPositions[1])
        nextOdd == IF pattern1[1] = "arithmetic" THEN Add(lastOdd, oddDiff)
                   ELSE Mul(lastOdd, oddRatio)
        nextEven1 == IF pattern2[1] = "arithmetic" THEN Add(lastEven, evenDiff)
                     ELSE Mul(lastEven, evenRatio)
        nextEven2 == IF pattern2[1] = "arithmetic" THEN Add(nextEven1, evenDiff)
                     ELSE Mul(nextEven1, evenRatio)
    IN  PredictionResult(
            IF Len(sequence) % 2 = 0
            THEN <<nextOdd, nextEven1, Add(nextOdd, Sub(nextOdd, lastOdd))>>
            ELSE <<nextEven1, nextOdd, nextEven2>>,
            "hybrid",
            <<"Interleaved sequences: odd positions follow ${}, even positions follow ${}",
              pattern1, pattern2>>,
            <<"Two separate sequences: ${} and ${}", pattern1, pattern2>>, Conf(90))

InterleavedResult(sequence) ==
    InterleavedReturn(sequence, checkInterleaved(sequence))

AlternatingSequenceReturn(sequence, d) ==
    LET altValue1 == d[2]
        altValue2 == d[3]
        last == Last(sequence)
        first == IF (Len(sequence) - 1) % 2 = 0 THEN altValue2 ELSE altValue1
        second == IF (Len(sequence) - 1) % 2 = 0 THEN altValue1 ELSE altValue2
    IN  PredictionResult(
            <<Add(last, first),
              Add(Add(last, first), second),
              Add(Add(Add(last, first), second), first)>>,
            "alternating",
            <<"Alternating sequence with different patterns for odd/even positions">>,
            <<"Odd positions: +${}, Even positions: +${}",
              formatNumberWithPrecision(altValue1), formatNumberWithPrecision(altValue2)>>,
            Conf(89))

AlternatingSequenceResult(sequence) ==
    AlternatingSequenceReturn(sequence, checkAlternatingSequence(sequence))

PowerResult(sequence) ==
    LET base == I(checkPowerSequence(sequence)[2])
        nextPower == Len(sequence)
    IN  PredictionResult(
            <<MathPow(base, nextPower), MathPow(base, nextPower + 1),
              MathPow(base, nextPower + 2)>>,
            "power", <<"Power sequence with base ${}", base>>,
            <<"a_n = ${}^n", base>>, Conf(90))

\* CyclicReturn with the block read one position late:
\* pattern[(sequence.length + i + 1) % cycleLength]
CyclicReturnShifted(sequence, d) ==
    LET pattern == d[2]
        cycleLength == d[3]
    IN  PredictionResult(
            [i \in 1..3 |-> pattern[((Len(sequence) + i) % cycleLength) + 1]],
            "hybrid",
            <<"Cyclic pattern with period ${}: [${}]", cycleLength, pattern>>,
            <<"Repeating sequence with values [${}]", pattern>>, Conf(90))

CyclicReturn(sequence, d) ==
    LET pattern == d[2]
        cycleLength == d[3]
    IN  PredictionResult(
            [i \in 1..3 |-> pattern[((Len(sequence) + i - 1) % cycleLength) + 1]],
            "hybrid",
            <<"Cyclic pattern with period ${}: [${}]", cycleLength, pattern>>,
            <<"Repeating sequence with values [${}]", pattern>>, Conf(90))

CyclicResult(sequence) ==
    CyclicReturn(sequence, checkCyclicPattern(sequence))

DifferencePatternReturn(sequence, d) ==
    LET diffValue == d[2]
        diffOrder == d[3]
        last == Last(sequence)
        firstDiffs == getSequenceDifferences(sequence)
        secondDiffs == getSequenceDifferences(firstDiffs)
        \* second order
        nextDiff1 == Add(Last(firstDiffs), diffValue)
        nextDiff2 == Add(nextDiff1, diffValue)
        nextDiff3 == Add(nextDiff2, diffValue)
        \* third order
        nextSecondDiff1 == Add(Last(secondDiffs), diffValue)
        nextSecondDiff2 == Add(nextSecondDiff1, diffValue)
        nextFirstDiff1 == Add(Last(firstDiffs), nextSecondDiff1)
        nextFirstDiff2 == Add(Add(nextFirstDiff1, nextSecondDiff1), nextSecondDiff2)
        nextElements ==
            IF diffOrder = "first-order" THEN LinearNext(sequence, diffValue)
            ELSE IF diffOrder = "second-order"
            THEN <<Add(last, nextDiff1),
                   Add(Add(last, nextDiff1), nextDiff2),
                   Add(Add(Add(last, nextDiff1), nextDiff2), nextDiff3)>>
            ELSE <<Add(last, nextFirstDiff1),
                   Add(Add(last, nextFirstDiff1), nextFirstDiff2),
                   Add(Add(Add(last, nextFirstDiff1), nextFirstDiff2),
                       Add(Add(nextFirstDiff2, nextSecondDiff2), diffValue))>>
    IN  PredictionResult(nextElements, "difference_pattern",
            <<"Sequence with constant ${} difference = ${}", diffOrder,
              formatNumberWithPrecision(diffValue)>>,
            IF diffOrder = "first-order" THEN <<"Linear: a_n = a_1 + (n-1)d">>
            ELSE IF diffOrder = "second-order"
            THEN <<"Quadratic with constant second difference">>
            ELSE <<"Cubic with constant third difference">>,
            IF diffOrder = "first-order" THEN Conf(90)
            ELSE IF diffOrder = "second-order" THEN Conf(87) ELSE Conf(85))

DifferencePatternResult(sequence) ==
    DifferencePatternReturn(sequence, checkDifferencePatterns(sequence))

RatioPatternReturn(sequence, d) ==
    LET ratioValue == d[2]
        ratioOrder == d[3]
        last == Last(sequence)
        ratios == FiniteOnly(getSequenceRatios(sequence))
        nextRatio1 == Mul(Last(ratios), ratioValue)
        nextRatio2 == Mul(nextRatio1, ratioValue)
        nextElements ==
            IF ratioOrder = "first-order"
            THEN <<Mul(last, ratioValue),
                   Mul(last, MathPow(ratioValue, 2)),
                   Mul(last, MathPow(ratioValue, 3))>>
            ELSE <<Mul(last, nextRatio1),
                   Mul(Mul(last, nextRatio1), nextRatio2),
                   Mul(Mul(Mul(last, nextRatio1), nextRatio2),
                       Mul(nextRatio2, ratioValue))>>
    IN  PredictionResult(nextElements, "ratio_pattern",
            <<"Sequence with constant ${} ratio = ${}", ratioOrder,
              formatNumberWithPrecision(ratioValue)>>,
            IF ratioOrder = "first-order" THEN <<"a_n = a_1 x r^(n-1)">>
            ELSE <<"Sequence with second-order ratio pattern">>,
            IF ratioOrder = "first-order" THEN Conf(90) ELSE Conf(86))

RatioPatternResult(sequence) ==
    RatioPatternReturn(sequence, checkRatioPatterns(sequence))

\* sequence.slice(2).every((val, idx) => Math.abs((val - sequence[idx]) -
\*   (sequence[idx + 1] - sequence[idx - 1])) < 0.0001); at idx = 0 the read
\* sequence[idx - 1] is sequence[-1], which is undefined
delayPlusConstant(sequence) ==
    \A idx \in 0..(Len(sequence) - 3) :
        Lt(MathAbs(Sub(Sub(At(sequence, idx + 2), At(sequence, idx)),
                       Sub(At(sequence, idx + 1), At(sequence, idx - 1)))),
           Tolerance)

DelayPlusConstantResult(sequence) ==
    LET constant == Sub(sequence[3], sequence[1])
    IN  PredictionResult(
            <<Add(Last(sequence), Sub(sequence[2], sequence[1])),
              Add(At(sequence, Len(sequence)), constant),
              Add(At(sequence, Len(sequence) + 1), constant)>>,
            "difference_pattern",
            <<"Each element follows the pattern: a_n = a_(n-2) + ${}", constant>>,
            <<"a_(n+2) = a_n + ${}", constant>>, Conf(90))

\* the condition of the generalized interleaved arithmetic branch, lines 439-452
interleavedArithmetic(sequence) ==
    /\ Len(sequence) >= 4
    /\ checkArithmeticSequence(OddPositions(sequence))
    /\ checkArithmeticSequence(EvenPositions(sequence))
    /\ LET oddPositions == OddPositions(sequence)
           evenPositions == EvenPositions(sequence)
       IN  Lt(MathAbs(Sub(Sub(oddPositions[2], oddPositions[1]),
                          Sub(evenPositions[2], evenPositions[1]))), Tolerance)

InterleavedArithmeticResult(sequence) ==
    LET oddPositions == OddPositions(sequence)
        evenPositions == EvenPositions(sequence)
        oddDiff == Sub(oddPositions[2], oddPositions[1])
        evenDiff == Sub(evenPositions[2], evenPositions[1])
        stepBetweenSequences == Sub(evenPositions[1], oddPositions[1])
        nextOdd == Add(Last(oddPositions), oddDiff)
        nextEven == Add(Last(evenPositions), evenDiff)
    IN  PredictionResult(
            IF Len(sequence) % 2 = 0
            THEN <<nextOdd, Add(nextOdd, stepBetweenSequences), Add(nextOdd, oddDiff)>>
            ELSE <<nextEven, Add(Sub(nextEven, stepBetweenSequences), oddDiff),
                   Add(nextEven, evenDiff)>>,
            "hybrid",
            <<"Two interleaved arithmetic sequences with common difference ${}", oddDiff>>,
            <<"Odd positions: start at ${} with +${}, Even positions: start at ${} with +${}",
              oddPositions[1], oddDiff, evenPositions[1], evenDiff>>,
            Conf(95))

\* the condition of the hybrid branch, lines 483-492
hybridArithmeticGeometric(sequence) ==
    /\ Len(sequence) >= MinInterleaved
    /\ checkArithmeticSequence(OddPositions(sequence))
    /\ checkGeometricSequence(EvenPositions(sequence))

HybridResult(sequence) ==
    LET oddPositions == OddPositions(sequence)
        evenPositions == EvenPositions(sequence)
        oddDiff == Sub(oddPositions[2], oddPositions[1])
        evenRatio == Div(evenPositions[2], evenPositions[1])
        lastOdd == Last(oddPositions)
        lastEven == Last(evenPositions)
    IN  PredictionResult(
            IF Len(sequence) % 2 = 0
            THEN <<Add(lastOdd, oddDiff), Mul(lastEven, evenRatio),
                   Add(lastOdd, Mul(oddDiff, I(2)))>>
            ELSE <<Mul(lastEven, evenRatio), Add(lastOdd, oddDiff),
                   Mul(Mul(lastEven, evenRatio), evenRatio)>>,
            "hybrid",
            <<"Hybrid pattern: arithmetic for odd positions, geometric for even positions">>,
            <<"Odd positions: a_n = ${} + (n/2)x${}, Even positions: a_n = ${} x ${}^(n/2)",
              oddPositions[1], oddDiff, evenPositions[1],
              formatNumberWithPrecision(evenRatio)>>,
            Conf(82))

\* what a successor search that does not end leaves behind
NoNumber == <<0, -1>>

\* while ((nextNum % 2 === 0) !== shouldBeEven) nextNum++;  the value the
\* loop ends with, or NoNumber when it is still running after fuel rounds
RECURSIVE SuccessorSearch(_, _, _)
SuccessorSearch(nextNum, shouldBeEven, fuel) ==
    IF IsEven(nextNum) = shouldBeEven THEN nextNum
    ELSE IF fuel = 0 THEN NoNumber
    ELSE SuccessorSearch(Add(nextNum, I(1)), shouldBeEven, fuel - 1)

\* the for loop of lines 527-538 from round i (0, 1, 2) on: the numbers
\* pushed, ended by NoNumber where a search does not end
RECURSIVE ConsecutiveNext(_, _, _, _, _)
ConsecutiveNext(lastNum, currentGroupPos, startType, groupSize, i) ==
    IF i = 3 THEN <<>>
    ELSE LET pos == (currentGroupPos + i) % (groupSize * 2)
             shouldBeEven == IF startType = "even-first" THEN pos < groupSize
                             ELSE pos >= groupSize
             nextNum == SuccessorSearch(Add(lastNum, I(1)), shouldBeEven, MaxSearch)
         IN  IF nextNum = NoNumber THEN <<NoNumber>>
             ELSE <<nextNum>> \o
                  ConsecutiveNext(nextNum, currentGroupPos, startType, groupSize, i + 1)

ConsecutiveElementsOf(sequence, d) ==
    ConsecutiveNext(Last(sequence), Len(sequence) % (d[3] * 2), d[2], d[3], 0)

ConsecutiveElements(sequence) ==
    ConsecutiveElementsOf(sequence, checkConsecutiveEvenOddPattern(sequence))

ConsecutiveEvenOddReturn(sequence, d) ==
    PredictionResult(ConsecutiveElementsOf(sequence, d), "alternating",
        <<"Consecutive ${} numbers in groups of ${}", d[2], d[3]>>,
        <<"Groups of ${} ${} numbers", d[3], d[2]>>, Conf(95))

ConsecutiveEvenOddResult(sequence) ==
    ConsecutiveEvenOddReturn(sequence, checkConsecutiveEvenOddPattern(sequence))

\* FallbackResult with the confidence written as a percentage
FallbackResultPercent(sequence) ==
    LET diff == Sub(Last(sequence), sequence[Len(sequence) - 1])
    IN  PredictionResult(LinearNext(sequence, diff), "unknown",
            <<"Pattern not definitively identified, using last difference">>,
            <<"Based on last difference = ${}", formatNumberWithPrecision(diff)>>,
            I(50))

\* FallbackResult extrapolating from the first difference instead of the last
FallbackResultFirstDifference(sequence) ==
    LET diff == Sub(sequence[2], sequence[1])
    IN  PredictionResult(LinearNext(sequence, diff), "unknown",
            <<"Pattern not definitively identified, using last difference">>,
            <<"Based on last difference = ${}", formatNumberWithPrecision(diff)>>,
            Conf(50))

FallbackResult(sequence) ==
    LET diff == Sub(Last(sequence), sequence[Len(sequence) - 1])
    IN  PredictionResult(LinearNext(sequence, diff), "unknown",
            <<"Pattern not definitively identified, using last difference">>,
            <<"Based on last difference = ${}", formatNumberWithPrecision(diff)>>,
            Conf(50))

\* the detectors in the order in which predictSequence evaluates them
Detectors ==
    <<"detectComplexAlternatingPattern", "detectAlternatingDifferencePattern",
      "checkSpecificPattern7108", "detectAlternatingPatternWithStep",
      "checkArithmeticSequence", "checkGeometricSequence",
      "checkFibonacciSequence", "checkSquareSequence", "checkCubeSequence",
      "checkAlternatingDifference", "checkInterleaved",
      "checkAlternatingSequence", "checkPowerSequence", "checkCyclicPattern",
      "checkDifferencePatterns", "checkRatioPatterns", "delayPlusConstant",
      "interleavedArithmetic", "hybridArithmeticGeometric",
      "checkConsecutiveEvenOddPattern">>

\* the number of the fallback return, one past the last detector
Fallback == Len(Detectors) + 1

\* TooShort with the guard one term too low
TooShortBelowTwo(sequence) == Len(sequence) < 2

\* the length guard: sequence.length < 3
TooShort(sequence) == Len(sequence) < 3

\* matchedBranch with the square family tested before the Fibonacci-like one
matchedBranchSquareFirst(sequence) ==
    IF TooShort(sequence) THEN 0
    ELSE IF detectComplexAlternatingPattern(sequence)[1] THEN 1
    ELSE IF detectAlternatingDifferencePattern(sequence)[1] THEN 2
    ELSE IF checkSpecificPattern7108(sequence) THEN 3
    ELSE IF detectAlternatingPatternWithStep(sequence)[1] THEN 4
    ELSE IF checkArithmeticSequence(sequence) THEN 5
    ELSE IF checkGeometricSequence(sequence) THEN 6
    ELSE IF checkSquareSequence(sequence) THEN 8
    ELSE IF checkFibonacciSequence(sequence) THEN 7
    ELSE IF checkCubeSequence(sequence) THEN 9
    ELSE IF checkAlternatingDifference(sequence)[1] THEN 10
    ELSE IF checkInterleaved(sequence)[1] THEN 11
    ELSE IF checkAlternatingSequence(sequence)[1] THEN 12
    ELSE IF checkPowerSequence(sequence)[1] THEN 13
    ELSE IF checkCyclicPattern(sequence)[1] THEN 14
    ELSE IF checkDifferencePatterns(sequence)[1] THEN 15
    ELSE IF checkRatioPatterns(sequence)[1] THEN 16
    ELSE IF delayPlusConstant(sequence) /\ Len(sequence) >= 4 THEN 17
    ELSE IF interleavedArithmetic(sequence) THEN 18
    ELSE IF hybridArithmeticGeometric(sequence) THEN 19
    ELSE IF checkConsecutiveEvenOddPattern(sequence)[1] THEN 20
    ELSE Fallback

\* matchedBranch with the two-value alternating difference tested before
\* the alternating family with a constant step
matchedBranchAlternatingDifferenceFirst(sequence) ==
    IF TooShort(sequence) THEN 0
    ELSE IF detectComplexAlternatingPattern(sequence)[1] THEN 1
    ELSE IF detectAlternatingDifferencePattern(sequence)[1] THEN 2
    ELSE IF checkSpecificPattern7108(sequence) THEN 3
    ELSE IF checkAlternatingDifference(sequence)[1] THEN 10
    ELSE IF detectAlternatingPatternWithStep(sequence)[1] THEN 4
    ELSE IF checkArithmeticSequence(sequence) THEN 5
    ELSE IF checkGeometricSequence(sequence) THEN 6
    ELSE IF checkFibonacciSequence(sequence) THEN 7
    ELSE IF checkSquareSequence(sequence) THEN 8
    ELSE IF checkCubeSequence(sequence) THEN 9
    ELSE IF checkInterleaved(sequence)[1] THEN 11
    ELSE IF checkAlternatingSequence(sequence)[1] THEN 12
    ELSE IF checkPowerSequence(sequence)[1] THEN 13
    ELSE IF checkCyclicPattern(sequence)[1] THEN 14
    ELSE IF checkDifferencePatterns(sequence)[1] THEN 15
    ELSE IF checkRatioPatterns(sequence)[1] THEN 16
    ELSE IF delayPlusConstant(sequence) /\ Len(sequence) >= 4 THEN 17
    ELSE IF interleavedArithmetic(sequence) THEN 18
    ELSE IF hybridArithmeticGeometric(sequence) THEN 19
    ELSE IF checkConsecutiveEvenOddPattern(sequence)[1] THEN 20
    ELSE Fallback

\* The if-chain of predictSequence: the number of the return statement the
\* call reaches - 0 the length guard, k the branch of Detectors[k], Fallback
\* the final return.
matchedBranch(sequence) ==
    IF TooShort(sequence) THEN 0
    ELSE IF detectComplexAlternatingPattern(sequence)[1] THEN 1
    ELSE IF detectAlternatingDifferencePattern(sequence)[1] THEN 2
    ELSE IF checkSpecificPattern7108(sequence) THEN 3
    ELSE IF detectAlternatingPatternWithStep(sequence)[1] THEN 4
    ELSE IF checkArithmeticSequence(sequence) THEN 5
    ELSE IF checkGeometricSequence(sequence) THEN 6
    ELSE IF checkFibonacciSequence(sequence) THEN 7
    ELSE IF checkSquareSequence(sequence) THEN 8
    ELSE IF checkCubeSequence(sequence) THEN 9
    ELSE IF checkAlternatingDifference(sequence)[1] THEN 10
    ELSE IF checkInterleaved(sequence)[1] THEN 11
    ELSE IF checkAlternatingSequence(sequence)[1] THEN 12
    ELSE IF checkPowerSequence(sequence)[1] THEN 13
    ELSE IF checkCyclicPattern(sequence)[1] THEN 14
    ELSE IF checkDifferencePatterns(sequence)[1] THEN 15
    ELSE IF checkRatioPatterns(sequence)[1] THEN 16
    ELSE IF delayPlusConstant(sequence) /\ Len(sequence) >= 4 THEN 17
    ELSE IF interleavedArithmetic(sequence) THEN 18
    ELSE IF hybridArithmeticGeometric(sequence) THEN 19
    ELSE IF checkConsecutiveEvenOddPattern(sequence)[1] THEN 20
    ELSE Fallback

\* the result record the return statement of branch b builds
BranchResult(b, sequence) ==
    CASE b = 0 -> TooShortResult
      [] b = 1 -> ComplexAlternatingResult(sequence)
      [] b = 2 -> AlternatingDifferenceCycleResult(sequence)
      [] b = 3 -> SpecificPattern7108Result
      [] b = 4 -> AlternatingWithStepResult(sequence)
      [] b = 5 -> ArithmeticResult(sequence)
      [] b = 6 -> GeometricResult(sequence)
      [] b = 7 -> FibonacciResult(sequence)
      [] b = 8 -> SquareResult(sequence)
      [] b = 9 -> CubeResult(sequence)
      [] b = 10 -> AlternatingDifferenceResult(sequence)
      [] b = 11 -> InterleavedResult(sequence)
      [] b = 12 -> AlternatingSequenceResult(sequence)
      [] b = 13 -> PowerResult(sequence)
      [] b = 14 -> CyclicResult(sequence)
      [] b = 15 -> DifferencePatternResult(sequence)
      [] b = 16 -> RatioPatternResult(sequence)
      [] b = 17 -> DelayPlusConstantResult(sequence)
      [] b = 18 -> InterleavedArithmeticResult(sequence)
      [] b = 19 -> HybridResult(sequence)
      [] b = 20 -> ConsecutiveEvenOddResult(sequence)
      [] OTHER -> FallbackResult(sequence)

predictSequence(sequence) == BranchResult(matchedBranch(sequence), sequence)

\* the detectors a call that reaches return b has evaluated: those up to the
\* one that accepted
DetectorsBefore(b) == Prefix(Detectors, Min2(b, Len(Detectors)))

EvaluatedDetectors(sequence) == DetectorsBefore(matchedBranch(sequence))

\* the numbers pushed are all found: no successor search is still running
AllFound(elements) == \A i \in 1..Len(elements) : elements[i] # NoNumber

\* the call that reaches return b gets through it: every loop of
\* predictSequence and of the detectors runs over the finite input except
\* the successor search of the consecutive even/odd branch
BranchEnds(b, sequence) ==
    IF b # 20 THEN TRUE ELSE AllFound(ConsecutiveElements(sequence))

Terminates(sequence) == BranchEnds(matchedBranch(sequence), sequence)

---------------------------------------------------------------------------
(* The inputs *)

Vals == {I(v) : v \in -1..MaxVal}

\* every array of at most MaxLen of the values
GeneralInputs == UNION {[1..n -> Vals] : n \in 0..MaxLen}

\* the halves up to MaxHalf / 2
MaxHalf == 5
HalfVals == {Norm(n, 2) : n \in 1..MaxHalf}

\* short arrays with non-integer terms
FractionalInputs == [1..3 -> HalfVals] \cup [1..4 -> HalfVals]

\* [a, a+d, a+2d, a+3d, a+4d] for a and d among the halves up to MaxTerm / 2
MaxTerm == 4
TermVals == {Norm(n, 2) : n \in (0 - MaxTerm)..MaxTerm}
ArithmeticInput(a, d) == [i \in 1..5 |-> Add(a, Mul(I(i - 1), d))]
ArithmeticInputs == {ArithmeticInput(a, d) : a \in TermVals, d \in TermVals}

\* [1, r, r^2, r^3, r^4] for the ratios n and n/2, |n| <= MaxRatio, r # 0, 1
MaxRatio == 3
RatioVals == {Norm(n, d) : n \in (0 - MaxRatio)..MaxRatio, d \in 1..2} \ {I(0), I(1)}
GeometricInput(r) == [i \in 1..5 |-> MathPow(r, i - 1)]
GeometricInputs == {GeometricInput(r) : r \in RatioVals}

\* the first n perfect squares, n up to MaxSquares
MaxSquares == 20
SquaresInput(n) == [i \in 1..n |-> I(i * i)]
SquaresInputs == {SquaresInput(n) : n \in 3..MaxSquares}

\* a, b and the terms the recurrence a_n = a_(n-1) + a_(n-2) adds, up to
\* MaxFib terms
MaxFib == 6
RECURSIVE FibonacciInput(_, _, _)
FibonacciInput(a, b, n) ==
    IF n = 1 THEN <<a>>
    ELSE IF n = 2 THEN <<a, b>>
    ELSE LET s == FibonacciInput(a, b, n - 1)
         IN  Append(s, Add(s[n - 1], s[n - 2]))
FibonacciInputs == {FibonacciInput(a, b, n) : a \in Vals, b \in Vals, n \in 3..MaxFib}

\* a block of p values (2 <= p <= MaxPeriod, values 0..MaxBlockVal) repeated
\* to 2p or 2p + 1 terms
MaxPeriod == 3
MaxBlockVal == 4
CyclicInputs ==
    UNION {{[i \in 1..n |-> block[((i - 1) % Len(block)) + 1]] :
                block \in [1..p -> {I(v) : v \in 0..MaxBlockVal}],
                n \in (2 * p)..(2 * p + 1)} : p \in 2..MaxPeriod}

\* [1, base, base^2, ...] with up to MaxPowerLen terms, for the bases
\* checkPowerSequence tries
MaxPowerLen == 4
PowerInput(base, n) == [i \in 1..n |-> I(base ^ (i - 1))]
PowerInputs == {PowerInput(base, n) : base \in MinBase..MaxBase, n \in 3..MaxPowerLen}

\* [a, a+3, a+1, a+4, a+2, a+5, ...] with six or seven terms, a up to
\* MaxShift away from the 7 of the comment in the source
MaxShift == 1
Pattern7108Inputs ==
    {[i \in 1..n |-> IF i % 2 = 1 THEN I(a + (i - 1) \div 2)
                                  ELSE I(a + 3 + (i - 2) \div 2)] :
        a \in (7 - MaxShift)..(7 + MaxShift), n \in 6..7}

\* two branches interleaved, each arithmetic or geometric: the terms at the
\* odd positions start at oddStart and add (or multiply by) oddStep, those at
\* the even positions likewise
MaxStart == 3
MaxStep == 3
MaxInterleavedLen == 7
InterleavedInputs ==
    {[i \in 1..n |->
        LET b == IF i % 2 = 1 THEN 1 ELSE 2
            k == (i - b) \div 2
        IN  IF kinds[b] = "arithmetic" THEN I(starts[b] + k * steps[b])
            ELSE I(starts[b] * steps[b] ^ k)] :
        kinds \in {"arithmetic", "geometric"} \X {"arithmetic", "geometric"},
        starts \in (1..MaxStart) \X (1..MaxStart),
        steps \in (1..MaxStep) \X (1..MaxStep),
        n \in MinInterleaved..MaxInterleavedLen}

\* cubic[i] = a * i^3 + b, with five terms or more
MaxCubic == 2
MaxCubicLen == 6
CubicInputs ==
    {[i \in 1..n |-> I(a * i * i * i + b)] : a \in 1..MaxCubic, b \in (0 - MaxCubic)..MaxCubic,
                           n \in 5..MaxCubicLen}

\* an alternation: from the first term, the hops from an odd to an even
\* position apply one operation and the hops back the other; an operation
\* adds a number, multiplies by one, or raises to the power 0
MaxFirst == 2
MaxOperand == 2
MaxAlternationLen == 6
RECURSIVE AlternationInput(_, _, _, _)
AlternationInput(first, oddToEvenOp, evenToOddOp, n) ==
    IF n = 1 THEN <<I(first)>>
    ELSE LET before == AlternationInput(first, oddToEvenOp, evenToOddOp, n - 1)
         IN  Append(before, ApplyOperation(IF n % 2 = 0 THEN oddToEvenOp
                                           ELSE evenToOddOp, before[n - 1]))
AlternationInputs ==
    LET Operations ==
            ({"add"} \X {I(d) : d \in (0 - MaxOperand)..MaxOperand})
                \cup ({"multiply"} \X {I(m) : m \in 0..MaxOperand})
                \cup {<<"power", I(0)>>}
    IN  {AlternationInput(first, oddToEvenOp, evenToOddOp, n) :
            first \in 0..MaxFirst, oddToEvenOp \in Operations,
            evenToOddOp \in Operations, n \in MinComplex..MaxAlternationLen}

\* the array that starts at 1 and whose successive differences repeat a
\* block of MinPattern..MaxPattern differences at least twice
MaxDiff == 2
RECURSIVE DifferenceCycleInput(_, _)
DifferenceCycleInput(block, n) ==
    IF n = 1 THEN <<I(1)>>
    ELSE LET before == DifferenceCycleInput(block, n - 1)
         IN  Append(before, Add(before[n - 1], I(block[((n - 2) % Len(block)) + 1])))
DifferenceCycleInputs ==
    {DifferenceCycleInput(block, 2 * Len(block) + extra) :
        block \in UNION {[1..p -> (-1)..MaxDiff] : p \in MinPattern..MaxPattern},
        extra \in 1..2}

\* every array of five and of six terms over 0..MaxLongVal: the lengths
\* from which the five-term and the six-term detectors accept
MaxLongVal == 2
LongInputs ==
    UNION {[1..n -> {I(v) : v \in 0..MaxLongVal}] : n \in MinComplex..MinInterleaved}

\* the arithmetic sequences of four to MaxRun integer terms
MaxRun == 7
ArithmeticRuns ==
    {[i \in 1..n |-> I(a + (i - 1) * d)] : a \in (0 - MaxTerm)..MaxTerm,
                              d \in (0 - MaxTerm)..MaxTerm, n \in 4..MaxRun}

\* the arrays the specification and the comments of the source quote
ExampleInputs ==
    {[i \in 1..Len(s) |-> I(s[i])] :
        s \in {<<5, 7>>, <<2, 4, 6, 8, 10>>, <<2, 6, 18, 54, 162>>,
               <<1, 1, 2, 3, 5, 8>>, <<1, 4, 9, 16, 25>>, <<3, 1, 4, 3, 1, 4>>,
               <<7, 10, 8, 11, 9, 12>>, <<9, 16, 25>>, <<-1, -5, -2>>}}

Inputs ==
    GeneralInputs \cup FractionalInputs \cup ArithmeticInputs \cup GeometricInputs
        \cup SquaresInputs \cup FibonacciInputs \cup CyclicInputs \cup ExampleInputs
        \cup PowerInputs \cup Pattern7108Inputs \cup InterleavedInputs
        \cup CubicInputs \cup AlternationInputs \cup DifferenceCycleInputs
        \cup LongInputs \cup ArithmeticRuns

---------------------------------------------------------------------------
(* One call of predictSequence *)

NoResult == PredictionResult(<<>>, "none", <<>>, <<>>, NaN)

\* useState(null), and a state that holds a value
Null == <<>>
Held(value) == <<value>>

\* the page before any event: useState('') and useState(null)
PageInit ==
    /\ inputValue = <<>>
    /\ toast = "none"
    /\ pageSequence = Null
    /\ predictionResult = Null
    /\ returned = <<>>

Init ==
    /\ input \in Inputs
    /\ result = NoResult
    /\ called = <<>>
    /\ pc = "call"
    /\ PageInit

\* Return with the next elements pushed onto the array of the caller
ReturnAppending ==
    /\ pc = "call"
    /\ \E b \in {matchedBranch(input)} :
           /\ BranchEnds(b, input)
           /\ result' = BranchResult(b, input)
           /\ called' = DetectorsBefore(b)
           /\ input' = input \o BranchResult(b, input).nextElements
    /\ pc' = "returned"
    /\ UNCHANGED appVars

\* the call runs to one of its return statements
Return ==
    /\ pc = "call"
    /\ \E b \in {matchedBranch(input)} :
           /\ BranchEnds(b, input)
           /\ result' = BranchResult(b, input)
           /\ called' = DetectorsBefore(b)
    /\ pc' = "returned"
    /\ UNCHANGED input
    /\ UNCHANGED appVars

\* the call enters a successor search that is still running after MaxSearch
\* rounds, and does not return
Loop ==
    /\ pc = "call"
    /\ \E b \in {matchedBranch(input)} :
           /\ ~BranchEnds(b, input)
           /\ called' = DetectorsBefore(b)
    /\ pc' = "looping"
    /\ UNCHANGED <<input, result>>
    /\ UNCHANGED appVars

Next == Return \/ Loop

Spec == Init /\ [][Next]_vars

---------------------------------------------------------------------------
(* SequenceForm: the text of the input field and handleSubmit,             *)
(* SequenceForm.tsx lines 14-42.  A text is the sequence of its            *)
(* characters.                                                             *)

\* inputValue.replace(/\s+/g, ''); of the characters \s matches the texts of
\* the model hold the space and the tab
cleaned(text) == SelectSeq(text, LAMBDA c : c \notin {" ", "\t"})

\* text.split(','): the pieces between the commas, empty ones included
RECURSIVE Split(_)
Split(text) ==
    IF \A i \in 1..Len(text) : text[i] # "," THEN <<text>>
    ELSE LET comma == CHOOSE i \in 1..Len(text) :
                          text[i] = "," /\ \A j \in 1..(i - 1) : text[j] # ","
         IN  <<SubSeq(text, 1, comma - 1)>> \o Split(SubSeq(text, comma + 1, Len(text)))

\* cleaned.split(',')
values(text) == Split(cleaned(text))

DigitChars == <<"0", "1", "2", "3", "4", "5", "6", "7", "8", "9">>

IsDigit(c) == \E d \in 1..10 : DigitChars[d] = c

\* the character at position i (from 1), "" past the end
CharAt(text, i) == IF 1 <= i /\ i <= Len(text) THEN text[i] ELSE ""

\* the number of digits the text has from position i on
RECURSIVE DigitSpan(_, _)
DigitSpan(text, i) == IF IsDigit(CharAt(text, i)) THEN 1 + DigitSpan(text, i + 1) ELSE 0

\* the value of the n digits from position i on
RECURSIVE DigitsValue(_, _, _)
DigitsValue(text, i, n) ==
    IF n = 0 THEN 0
    ELSE DigitsValue(text, i, n - 1) * 10
             + (CHOOSE d \in 0..9 : DigitChars[d + 1] = text[i + n - 1])

\* the largest power of ten a double holds: 1e308 is finite, 1e309 is not
MaxExponent == 308

\* mantissa x 10^exponent as a double: a literal of 1e309 or more is read as
\* Infinity
DecimalValue(mantissa, exponent) ==
    IF mantissa = I(0) THEN I(0)
    ELSE IF exponent > MaxExponent /\ ~Lt(mantissa, I(1)) THEN PosInf
    ELSE Mul(mantissa, MathPow(I(10), exponent))

\* the exponent part at position q: e or E, an optional sign, digits; 0 when
\* there is none or it has no digit
ExponentAt(text, q) ==
    IF CharAt(text, q) \notin {"e", "E"} THEN 0
    ELSE IF CharAt(text, q + 1) = "-"
         THEN 0 - DigitsValue(text, q + 2, DigitSpan(text, q + 2))
    ELSE IF CharAt(text, q + 1) = "+"
         THEN DigitsValue(text, q + 2, DigitSpan(text, q + 2))
    ELSE DigitsValue(text, q + 1, DigitSpan(text, q + 1))

\* the decimal literal at position p with intLen digits before the point and
\* fracLen after it; NaN when it has no digit at all
LiteralAt(text, p, intLen, fracLen) ==
    IF intLen = 0 /\ fracLen = 0 THEN NaN
    ELSE DecimalValue(
             Norm(DigitsValue(text, p, intLen) * (10 ^ fracLen)
                      + DigitsValue(text, p + intLen + 1, fracLen),
                  10 ^ fracLen),
             ExponentAt(text, IF CharAt(text, p + intLen) = "."
                              THEN p + intLen + 1 + fracLen ELSE p + intLen))

\* the unsigned literal at position p, with intLen digits at its start: the
\* word Infinity or a decimal literal
UnsignedAt(text, p, intLen) ==
    IF \A k \in 1..8 :
           CharAt(text, p + k - 1) = <<"I", "n", "f", "i", "n", "i", "t", "y">>[k]
    THEN PosInf
    ELSE LiteralAt(text, p, intLen,
                   IF CharAt(text, p + intLen) = "."
                   THEN DigitSpan(text, p + intLen + 1) ELSE 0)

\* parseFloat: the value of the longest prefix that is a decimal literal,
\* NaN when there is none
parseFloat(text) ==
    IF CharAt(text, 1) = "-" THEN Neg(UnsignedAt(text, 2, DigitSpan(text, 2)))
    ELSE IF CharAt(text, 1) = "+" THEN UnsignedAt(text, 2, DigitSpan(text, 2))
    ELSE UnsignedAt(text, 1, DigitSpan(text, 1))

\* values.map(val => parseFloat(val)).filter(num => !isNaN(num))
numbers(text) ==
    SelectSeq([i \in 1..Len(values(text)) |-> parseFloat(values(text)[i])],
              LAMBDA num : ~isNaN(num))

\* slice with the element of index end kept as well
sliceInclusive(arr, start, end) == SubSeq(arr, start + 1, Min2(end + 1, Len(arr)))

\* arr.slice(start, end) with 0 <= start: the elements of the 0-based
\* indices start .. end - 1
slice(arr, start, end) == SubSeq(arr, start + 1, Min2(end, Len(arr)))

\* the fewest numbers handleSubmit accepts and the most it passes on
MinNumbers == 3
MaxNumbers == 20

\* the decimal digits of a natural number
RECURSIVE DigitsOf(_)
DigitsOf(n) ==
    IF n < 10 THEN <<DigitChars[n + 1]>>
    ELSE DigitsOf(n \div 10) \o <<DigitChars[(n % 10) + 1]>>

\* the string of an integer, as join makes it
NumberToString(n) == IF n < 0 THEN <<"-">> \o DigitsOf(0 - n) ELSE DigitsOf(n)

\* strings.join(separator)
RECURSIVE Join(_, _)
Join(strings, separator) ==
    IF strings = <<>> THEN <<>>
    ELSE IF Len(strings) = 1 THEN strings[1]
    ELSE strings[1] \o separator \o Join(Tail(strings), separator)

\* example.join(', ')
ExampleText(example) ==
    Join([i \in 1..Len(example) |-> NumberToString(example[i])], <<",", " ">>)

\* the arrays of the four example buttons
Examples ==
    {<<2, 4, 6, 8, 10>>, <<1, 2, 4, 8, 16>>, <<1, 1, 2, 3, 5, 8>>, <<1, 4, 9, 16, 25>>}

\* the longest list of numbers typed: one more than handleSubmit passes on
MaxTyped == 21

\* "1,2,...,n"
CountingText(n) == Join([i \in 1..n |-> NumberToString(i)], <<",">>)

\* the texts typed into the field
TypedTexts ==
    {<<>>,
     <<"5", ",", " ", "7">>,
     <<" ", "2", " ", ",", "4", "x", ",", "6", ",", ",", "8", ",", "1", " ", "0">>,
     <<"0", ".", "5", ",", "1", ".", "5", ",", "3", ".", "5">>,
     <<"I", "n", "f", "i", "n", "i", "t", "y", ",", "-", "1", "e", "9", "9", "9", ",", "3">>,
     <<"1", ",", "N", "a", "N", ",", "x", ",", "2">>,
     <<".", "5", ",", "+", "3", ",", "-", "2", ".", ",", "1", "e", "2", ",", "1", "E", "-", "1">>,
     <<"-", "1", ",", "-", "5", ",", "-", "2">>}
        \cup {CountingText(n) : n \in MaxNumbers..MaxTyped}

---------------------------------------------------------------------------
(* The page: Index.tsx lines 8-34 with its SequenceForm.  The handler of   *)
(* a submission runs handleSubmit, which calls handleSequenceSubmit, which *)
(* calls predictSequence (Return or Loop above) and sets the state of the  *)
(* page once the call has returned.                                        *)

\* submissions after which the model stops
MaxCalls == 3

AppInit ==
    /\ input = <<>>
    /\ result = NoResult
    /\ called = <<>>
    /\ pc = "idle"
    /\ PageInit

\* onChange={(e) => setInputValue(e.target.value)}: the event of a text that
\* has changed
onChange ==
    /\ pc = "idle"
    /\ inputValue' \in TypedTexts \ {inputValue}
    /\ toast' = "none"
    /\ UNCHANGED <<input, result, called, pc, pageSequence,
                   predictionResult, returned>>

\* handleExampleClick: setInputValue(example.join(', '))
handleExampleClick ==
    /\ pc = "idle"
    /\ \E example \in Examples : inputValue' = ExampleText(example)
    /\ toast' = "none"
    /\ UNCHANGED <<input, result, called, pc, pageSequence,
                   predictionResult, returned>>

\* handleSubmit that hands every parsed array to onSubmit
handleSubmitWithoutMinimum ==
    /\ pc = "idle"
    /\ Len(returned) < MaxCalls
    /\ \E parsed \in {numbers(inputValue)} :
           /\ toast' = IF Len(parsed) < MinNumbers THEN "error"
                        ELSE IF Len(parsed) > MaxNumbers THEN "warning" ELSE "none"
           /\ input' = IF Len(parsed) > MaxNumbers
                       THEN slice(parsed, 0, MaxNumbers) ELSE parsed
           /\ result' = NoResult
           /\ called' = <<>>
           /\ pc' = "call"
    /\ UNCHANGED <<inputValue, pageSequence, predictionResult, returned>>

\* handleSubmit up to the call of predictSequence inside onSubmit: too few
\* numbers end it with toast.error, more than MaxNumbers are cut to the first
\* MaxNumbers with toast.warning
handleSubmit ==
    /\ pc = "idle"
    /\ Len(returned) < MaxCalls
    /\ \E parsed \in {numbers(inputValue)} :
           IF Len(parsed) < MinNumbers
           THEN /\ toast' = "error"
                /\ UNCHANGED <<input, result, called, pc>>
           ELSE /\ toast' = IF Len(parsed) > MaxNumbers THEN "warning" ELSE "none"
                /\ input' = IF Len(parsed) > MaxNumbers
                            THEN slice(parsed, 0, MaxNumbers) ELSE parsed
                /\ result' = NoResult
                /\ called' = <<>>
                /\ pc' = "call"
    /\ UNCHANGED <<inputValue, pageSequence, predictionResult, returned>>

\* handleSequenceSubmit with a result that is set once and then kept
handleSequenceSubmitFirstResult ==
    /\ pc = "returned"
    /\ pageSequence' = Held(input)
    /\ predictionResult' =
           IF predictionResult = Null THEN Held(result) ELSE predictionResult
    /\ returned' = Append(returned, [sequence |-> input, result |-> result])
    /\ pc' = "idle"
    /\ UNCHANGED <<input, result, called, inputValue, toast>>

\* handleSequenceSubmit once predictSequence has returned: setSequence and
\* setPredictionResult take effect together when the handler ends
handleSequenceSubmit ==
    /\ pc = "returned"
    /\ pageSequence' = Held(input)
    /\ predictionResult' = Held(result)
    /\ returned' = Append(returned, [sequence |-> input, result |-> result])
    /\ pc' = "idle"
    /\ UNCHANGED <<input, result, called, inputValue, toast>>

AppNext ==
    \/ onChange
    \/ handleExampleClick
    \/ handleSubmit
    \/ Return
    \/ Loop
    \/ handleSequenceSubmit

AppSpec == AppInit /\ [][AppNext]_vars

---------------------------------------------------------------------------
(* Properties of the calls of predictSequence the page makes *)

FrameEffect ==
    [][/\ pc = "call" =>
              /\ input' = input
              /\ pageSequence' = pageSequence
              /\ predictionResult' = predictionResult
       /\ Len(returned') >= Len(returned)
       /\ \A i \in 1..Len(returned) : returned'[i] = returned[i]]_vars

FrameEffectWitness ==
    /\ pc = "returned"
    /\ Len(returned) = 1
    /\ input # returned[1].sequence
    /\ input = numbers(inputValue)
    /\ predictionResult = Held(returned[1].result)
    /\ result.ruleType = "fibonacci"

\* handleSubmit has passed an array to onSubmit and the handler is not over
Submitting == pc \in {"call", "returned", "looping"}

\* C18: an array SequenceForm passes to onSubmit has between 3 and 20
\* numbers, whatever the text; when more than 20 numbers are parsed from the
\* text it is the first 20 of them, in their order
SubmittedLength ==
    /\ Submitting =>
           /\ 3 <= Len(input)
           /\ Len(input) <= 20
           /\ \A parsed \in {numbers(inputValue)} :
                  /\ Len(parsed) > 20 => input = [i \in 1..20 |-> parsed[i]]
                  /\ Len(parsed) <= 20 => input = parsed
    /\ \A i \in 1..Len(returned) :
           3 <= Len(returned[i].sequence) /\ Len(returned[i].sequence) <= 20

SubmittedLengthWitness ==
    /\ pc = "call"
    /\ Len(numbers(inputValue)) = 21
    /\ Len(input) = 20
    /\ input[1] = I(1)
    /\ input[20] = I(20)
    /\ toast = "warning"

\* C19: every number of an array SequenceForm passes to onSubmit is finite,
\* whatever the text, also when it holds tokens such as Infinity or 1e999
SubmittedFinite ==
    Submitting => \A i \in 1..Len(input) : isFinite(input[i])

\* C21: a submission of a text that parses to fewer than 3 numbers raises
\* the error toast and ends there: no call of predictSequence starts, and
\* the sequence and the result the page holds, and the calls made so far,
\* are what they were before
RejectedSubmission ==
    [][(/\ pc = "idle"
        /\ inputValue' = inputValue
        /\ Len(numbers(inputValue)) < MinNumbers) =>
           /\ toast' = "error"
           /\ pc' = "idle"
           /\ UNCHANGED <<pageSequence, predictionResult, returned,
                          input, result, called>>]_vars

RejectedSubmissionWitness ==
    /\ pc = "idle"
    /\ toast = "error"
    /\ Len(numbers(inputValue)) = 2
    /\ Len(returned) = 1
    /\ pageSequence = Held(returned[1].sequence)
    /\ predictionResult = Held(returned[1].result)

\* C20: the page holds either no sequence and no result, or a sequence and
\* the result of predictSequence for that sequence
PageConsistent ==
    \/ pageSequence = Null /\ predictionResult = Null
    \/ /\ pageSequence # Null
       /\ predictionResult = Held(predictSequence(pageSequence[1]))

PageConsistentWitness ==
    /\ pc = "idle"
    /\ Len(returned) = 2
    /\ returned[1].sequence # returned[2].sequence
    /\ returned[1].result # returned[2].result
    /\ pageSequence = Held(returned[2].sequence)
    /\ predictionResult = Held(returned[2].result)

---------------------------------------------------------------------------
(* Properties of one call.  L is the last term of the input, P the term    *)
(* before it.                                                              *)

L == input[Len(input)]

P == input[Len(input) - 1]

\* the call is over, one way or the other
Called == pc # "call"

\* C1: every call of predictSequence comes to a return statement, whatever
\* numbers the array holds; none stays in a loop
TotalCall == pc # "looping"

\* C2: the result has exactly three next elements when the input has three
\* terms or more, and none when it has fewer
NextElementsLength ==
    pc = "returned" =>
        Len(result.nextElements) = IF Len(input) >= 3 THEN 3 ELSE 0

NextElementsLengthWitness ==
    /\ pc = "returned"
    /\ Len(input) = 6
    /\ result.ruleType = "hybrid"
    /\ Len(result.nextElements) = 3

\* C3: the confidence of the result lies between 0 and 1
ConfidenceBound ==
    pc = "returned" => Le(I(0), result.confidence) /\ Le(result.confidence, I(1))

ConfidenceBoundWitness ==
    /\ pc = "returned"
    /\ Len(input) >= 3
    /\ result.confidence = Conf(98)

\* C4: an input of fewer than three terms returns no next elements, the
\* rule type unknown, confidence 0 and the formula N/A, and no detector is
\* evaluated
TooShortInput ==
    (Called /\ Len(input) < 3) =>
        /\ pc = "returned"
        /\ result.nextElements = <<>>
        /\ result.ruleType = "unknown"
        /\ result.confidence = I(0)
        /\ result.formula = <<"N/A">>
        /\ called = <<>>

TooShortInputWitness ==
    /\ pc = "returned"
    /\ input = <<I(5), I(7)>>
    /\ result.ruleType = "unknown"
    /\ called = <<>>

\* C5: every five-term progression [a, a+d, a+2d, a+3d, a+4d] is classified
\* arithmetic with the next elements [a+5d, a+6d, a+7d] and confidence 0.95
ArithmeticCorrectness ==
    \A a \in TermVals, d \in TermVals :
        (Called /\ input = ArithmeticInput(a, d)) =>
            /\ pc = "returned"
            /\ result.ruleType = "arithmetic"
            /\ result.nextElements =
                   <<Add(a, Mul(I(5), d)), Add(a, Mul(I(6), d)), Add(a, Mul(I(7), d))>>
            /\ result.confidence = Conf(95)

\* C6: every five-term sequence [1, r, r^2, r^3, r^4] with r other than 0
\* and 1 is classified geometric with the next elements [r^5, r^6, r^7] and
\* confidence 0.93
GeometricCorrectness ==
    \A r \in RatioVals :
        (Called /\ input = GeometricInput(r)) =>
            /\ pc = "returned"
            /\ result.ruleType = "geometric"
            /\ result.nextElements = <<MathPow(r, 5), MathPow(r, 6), MathPow(r, 7)>>
            /\ result.confidence = Conf(93)

\* C7: the first n perfect squares, n from 3 to MaxSquares, are classified
\* square with confidence 0.92 and the next elements (n+1)^2, (n+2)^2, (n+3)^2
SquareFamily ==
    \A n \in 3..MaxSquares :
        (Called /\ input = SquaresInput(n)) =>
            /\ pc = "returned"
            /\ result.ruleType = "square"
            /\ result.confidence = Conf(92)
            /\ result.nextElements =
                   <<I((n + 1) * (n + 1)), I((n + 2) * (n + 2)), I((n + 3) * (n + 3))>>

SquareFamilyWitness ==
    /\ pc = "returned"
    /\ input = SquaresInput(5)
    /\ result.ruleType = "square"
    /\ result.nextElements = <<I(36), I(49), I(64)>>

\* C8, as stated: a sequence classified fibonacci gets the next elements
\* [L+P, 2L+P, 2L+P], and the third of them is not the continuation 3L+2P of
\* the recurrence
FibonacciQuirkNeverContinues ==
    (pc = "returned" /\ result.ruleType = "fibonacci") =>
        /\ result.nextElements =
               <<Add(L, P), Add(Mul(I(2), L), P), Add(Mul(I(2), L), P)>>
        /\ result.nextElements[3] # Add(Mul(I(3), L), Mul(I(2), P))

\* C8, amended: a sequence classified fibonacci gets the next elements
\* [L+P, 2L+P, 2L+P]; the third of them differs from the continuation 3L+2P
\* of the recurrence exactly when L + P is not 0
FibonacciQuirk ==
    (pc = "returned" /\ result.ruleType = "fibonacci") =>
        /\ result.nextElements =
               <<Add(L, P), Add(Mul(I(2), L), P), Add(Mul(I(2), L), P)>>
        /\ (result.nextElements[3] # Add(Mul(I(3), L), Mul(I(2), P)))
               <=> (Add(L, P) # I(0))

FibonacciQuirkWitness ==
    /\ pc = "returned"
    /\ input = <<I(1), I(1), I(2), I(3), I(5), I(8)>>
    /\ result.ruleType = "fibonacci"
    /\ result.nextElements = <<I(13), I(21), I(21)>>

\* the input repeats its first p terms exactly
RepeatsBlock(p) ==
    \A i \in (p + 1)..Len(input) : input[i] = input[((i - 1) % p) + 1]

\* the periods the claim allows: 2 <= p <= floor(n / 2)
BlockPeriods == {p \in 2..(Len(input) \div 2) : RepeatsBlock(p)}

\* none of the families before the cyclic one accepts the input
NoFamilyBeforeCyclic ==
    /\ ~detectComplexAlternatingPattern(input)[1]
    /\ ~detectAlternatingDifferencePattern(input)[1]
    /\ ~checkSpecificPattern7108(input)
    /\ ~detectAlternatingPatternWithStep(input)[1]
    /\ ~checkArithmeticSequence(input)
    /\ ~checkGeometricSequence(input)
    /\ ~checkFibonacciSequence(input)
    /\ ~checkSquareSequence(input)
    /\ ~checkCubeSequence(input)
    /\ ~checkAlternatingDifference(input)[1]
    /\ ~checkInterleaved(input)[1]
    /\ ~checkAlternatingSequence(input)[1]
    /\ ~checkPowerSequence(input)[1]

NoDetectorAccepts ==
    /\ NoFamilyBeforeCyclic
    /\ ~checkCyclicPattern(input)[1]
    /\ ~checkDifferencePatterns(input)[1]
    /\ ~checkRatioPatterns(input)[1]
    /\ ~(delayPlusConstant(input) /\ Len(input) >= 4)
    /\ ~interleavedArithmetic(input)
    /\ ~hybridArithmeticGeometric(input)
    /\ ~checkConsecutiveEvenOddPattern(input)[1]

\* C10: an input of three terms or more that no detector accepts is returned
\* as unknown with confidence 0.5 and the next elements L+e, L+2e, L+3e,
\* e = L - P; and an input of three terms or more is returned as unknown
\* only when no detector accepts it
FallbackCoverage ==
    /\ (Called /\ Len(input) >= 3 /\ NoDetectorAccepts) =>
           /\ pc = "returned"
           /\ result.ruleType = "unknown"
           /\ result.confidence = <<1, 2>>
           /\ result.nextElements =
                  <<Add(L, Sub(L, P)), Add(L, Mul(I(2), Sub(L, P))),
                    Add(L, Mul(I(3), Sub(L, P)))>>
    /\ (pc = "returned" /\ Len(input) >= 3 /\ result.ruleType = "unknown") =>
           NoDetectorAccepts

FallbackCoverageWitness ==
    /\ pc = "returned"
    /\ Len(input) >= 3
    /\ NoDetectorAccepts
    /\ result.ruleType = "unknown"
    /\ result.confidence = <<1, 2>>

\* detector k of the chain accepts the input
Accepts(k) ==
    CASE k = 1 -> detectComplexAlternatingPattern(input)[1]
      [] k = 2 -> detectAlternatingDifferencePattern(input)[1]
      [] k = 3 -> checkSpecificPattern7108(input)
      [] k = 4 -> detectAlternatingPatternWithStep(input)[1]
      [] k = 5 -> checkArithmeticSequence(input)
      [] k = 6 -> checkGeometricSequence(input)
      [] k = 7 -> checkFibonacciSequence(input)
      [] k = 8 -> checkSquareSequence(input)
      [] k = 9 -> checkCubeSequence(input)
      [] k = 10 -> checkAlternatingDifference(input)[1]
      [] k = 11 -> checkInterleaved(input)[1]
      [] k = 12 -> checkAlternatingSequence(input)[1]
      [] k = 13 -> checkPowerSequence(input)[1]
      [] k = 14 -> checkCyclicPattern(input)[1]
      [] k = 15 -> checkDifferencePatterns(input)[1]
      [] k = 16 -> checkRatioPatterns(input)[1]
      [] k = 17 -> delayPlusConstant(input) /\ Len(input) >= 4
      [] k = 18 -> interleavedArithmetic(input)
      [] k = 19 -> hybridArithmeticGeometric(input)
      [] k = 20 -> checkConsecutiveEvenOddPattern(input)[1]

\* the families whose detector accepts the input
AcceptingFamilies == {k \in 1..Len(Detectors) : Accepts(k)}

\* the least family from k on whose detector accepts the input, the fallback
\* when there is none
RECURSIVE EarliestFrom(_)
EarliestFrom(k) ==
    IF k > Len(Detectors) THEN Fallback
    ELSE IF Accepts(k) THEN k
    ELSE EarliestFrom(k + 1)

\* the earliest accepting family in the order of the chain
EarliestFamily == EarliestFrom(1)

\* C11: for an input of three terms or more the call evaluates the detectors
\* in the order of the chain up to the earliest one that accepts, and the rule
\* type, confidence and next elements it returns are those of that family,
\* never those of a later one; [9, 16, 25], Fibonacci-like and all squares,
\* is returned as fibonacci
FamilyPriority ==
    /\ (Called /\ Len(input) >= 3) =>
           \A k \in {EarliestFamily} :
               /\ called = DetectorsBefore(k)
               /\ pc = "returned" =>
                      \A family \in {BranchResult(k, input)} :
                          /\ result.ruleType = family.ruleType
                          /\ result.confidence = family.confidence
                          /\ result.nextElements = family.nextElements
    /\ (Called /\ input = <<I(9), I(16), I(25)>>) =>
           /\ pc = "returned"
           /\ result.ruleType = "fibonacci"

FamilyPriorityWitness ==
    /\ pc = "returned"
    /\ input = <<I(9), I(16), I(25)>>
    /\ AcceptingFamilies = {7, 8}
    /\ result.ruleType = "fibonacci"
    /\ result.confidence = Conf(90)

\* C14: an input of three terms or more, all finite, gets next elements that
\* are all finite numbers, none NaN, undefined or infinite
FiniteNextElements ==
    (pc = "returned" /\ Len(input) >= 3
        /\ \A i \in 1..Len(input) : isFinite(input[i])) =>
        \A i \in 1..Len(result.nextElements) : isFinite(result.nextElements[i])

\* C15: [1, base, base^2, ...] of three terms or more, base an integer in
\* 2..10, is classified power with confidence 0.90 and the next elements
\* base^n, base^(n+1), base^(n+2)
PowerCorrectness ==
    \A base \in 2..10, n \in 3..MaxPowerLen :
        (Called /\ input = PowerInput(base, n)) =>
            /\ pc = "returned"
            /\ result.ruleType = "power"
            /\ result.confidence = Conf(90)
            /\ result.nextElements =
                   <<I(base ^ n), I(base ^ (n + 1)), I(base ^ (n + 2))>>

\* every term of the input from the third on is the term two positions back
\* plus one constant
DelayRule ==
    \A i \in 3..Len(input) : Sub(input[i], input[i - 2]) = Sub(input[3], input[1])

\* C16: the delay+constant detector accepts an input of four terms or more
\* exactly when every term from the third on is the term two positions back
\* plus one constant; when it is the earliest family to accept, the result is
\* a difference_pattern with confidence 0.90 and three numbers as next elements
DelayPlusConstantFamily ==
    (Called /\ Len(input) >= 4) =>
        /\ delayPlusConstant(input) <=> DelayRule
        /\ (pc = "returned" /\ EarliestFamily = 17) =>
               /\ result.ruleType = "difference_pattern"
               /\ result.confidence = Conf(90)
               /\ Len(result.nextElements) = 3
               /\ \A i \in 1..3 : ~isNaN(result.nextElements[i])

\* C17: an input checkSpecificPattern7108 accepts also satisfies the condition
\* of the generalized interleaved arithmetic family, and the next elements the
\* branch of the special case returns are those the generalized rule computes
SpecificPatternSubsumed ==
    (Called /\ checkSpecificPattern7108(input)) =>
        /\ interleavedArithmetic(input)
        /\ SpecificPattern7108Result.nextElements =
               InterleavedArithmeticResult(input).nextElements

\* the branch of the detector's pattern continued by one term: an arithmetic
\* branch adds its difference, a geometric branch multiplies by its ratio
BranchSuccessor(branch, pattern) ==
    IF pattern[1] = "arithmetic"
    THEN Add(Last(branch), Sub(branch[2], branch[1]))
    ELSE Mul(Last(branch), Div(branch[2], branch[1]))

\* the result is the one of the interleaved family (the cyclic family
\* returns hybrid with 0.90 too)
InterleavedCase ==
    /\ pc = "returned"
    /\ result.ruleType = "hybrid"
    /\ result.confidence = Conf(90)
    /\ called[Len(called)] = "checkInterleaved"

\* the term that follows `terms` in the branch of its position
InterleavedSuccessor(terms, patterns) ==
    IF Len(terms) % 2 = 0
    THEN BranchSuccessor(OddPositions(terms), patterns[2])
    ELSE BranchSuccessor(EvenPositions(terms), patterns[3])

\* C22: when the interleaved family (hybrid, 0.90) produces the result, each
\* of the three next elements is the next term of the branch of its position,
\* by the rule of that branch (add the difference, multiply by the ratio),
\* for inputs of even and of odd length
InterleavedCorrectness ==
    InterleavedCase =>
        \A patterns \in {checkInterleaved(input)} :
            \A k \in 1..3 :
                result.nextElements[k] =
                    InterleavedSuccessor(
                        input \o SubSeq(result.nextElements, 1, k - 1), patterns)

\* the result is the one of the constant third-order difference
ThirdOrderCase ==
    /\ pc = "returned"
    /\ result.ruleType = "difference_pattern"
    /\ result.confidence = Conf(85)

\* the third-order differences of an array
thirdDiffsOf(sequence) ==
    getSequenceDifferences(getSequenceDifferences(getSequenceDifferences(sequence)))

\* C24: when the constant difference is matched at third order
\* (difference_pattern, 0.85), every third-order difference of the input
\* extended by the three next elements is the matched constant: the next
\* elements continue the cubic, [2, 9, 28, 65, 126] by 217, 344, 513
CubicContinuation ==
    /\ ThirdOrderCase =>
           \A extended \in {thirdDiffsOf(input \o result.nextElements)} :
               \A i \in 1..Len(extended) : extended[i] = thirdDiffsOf(input)[1]
    /\ (Called /\ input = <<I(2), I(9), I(28), I(65), I(126)>>) =>
           /\ ThirdOrderCase
           /\ result.nextElements = <<I(217), I(344), I(513)>>

\* every entry of diffs is d
AllAre(diffs, d) == \A i \in 1..Len(diffs) : diffs[i] = d

\* the differences inside the odd-indexed and the even-indexed sub-sequence
oddDiffsOf(sequence) == getSequenceDifferences(OddPositions(sequence))
evenDiffsOf(sequence) == getSequenceDifferences(EvenPositions(sequence))

\* the result is the one of the alternating-sequence family, matched by the
\* constant differences of the two sub-sequences
AlternatingSequenceCase ==
    /\ pc = "returned"
    /\ result.ruleType = "alternating"
    /\ result.confidence = Conf(89)
    /\ areAllValuesEqual(oddDiffsOf(input))
    /\ areAllValuesEqual(evenDiffsOf(input))

\* C23: when the alternating-sequence family (0.89) produces the result
\* because the odd-indexed and the even-indexed sub-sequence each have a
\* constant difference, the input extended by the three next elements still
\* has both sub-sequences with the same two constant differences
AlternatingSequenceContinuation ==
    AlternatingSequenceCase =>
        \A extended \in {input \o result.nextElements} :
            /\ AllAre(oddDiffsOf(extended), oddDiffsOf(input)[1])
            /\ AllAre(evenDiffsOf(extended), evenDiffsOf(input)[1])

\* every term of the input is an integer
IntegerValued == \A i \in 1..Len(input) : IsInteger(input[i])

\* the result is the one of the complex alternating family
ComplexAlternatingCase ==
    /\ pc = "returned"
    /\ result.ruleType = "alternating"
    /\ result.confidence = Conf(95)
    /\ called = <<"detectComplexAlternatingPattern">>

\* the operation of the hop that leaves position h (1-based): odd to even
\* for an odd h
HopOp(d, h) == IF h % 2 = 1 THEN d[2] ELSE d[3]

\* C25: when the complex alternating family (0.95) produces the result for
\* an integer-valued input, also one with a 0 or a 1, the two detected
\* operations applied in turn from the first term reproduce every term of
\* the input, and the next elements are the next three values of the same
\* alternation, starting with the hop that leaves the last term
ComplexAlternation ==
    (ComplexAlternatingCase /\ IntegerValued) =>
        \A d \in {detectComplexAlternatingPattern(input)} :
            /\ \A h \in 1..(Len(input) - 1) :
                   ApplyOperation(HopOp(d, h), input[h]) = input[h + 1]
            /\ \A extended \in {input \o result.nextElements} :
                   \A h \in Len(input)..(Len(input) + 2) :
                       ApplyOperation(HopOp(d, h), extended[h]) = extended[h + 1]

\* the result is the one of the alternating family with a constant step
AlternatingWithStepCase ==
    /\ pc = "returned"
    /\ result.ruleType = "alternating"
    /\ result.confidence = Conf(98)

\* C26: when the alternating family with a constant step (0.98) produces the
\* result for an integer-valued input of four terms or more, the difference
\* of the odd-indexed terms equals that of the even-indexed terms, and the
\* input extended by the three next elements is accepted by the detector
\* with the same two differences and the same step, for inputs of even and
\* of odd length
AlternatingWithStepContinuation ==
    (AlternatingWithStepCase /\ IntegerValued /\ Len(input) >= 4) =>
        \A d \in {detectAlternatingPatternWithStep(input)} :
            /\ d[1]
            /\ d[2] = d[3]
            /\ detectAlternatingPatternWithStep(input \o result.nextElements) = d

AlternatingWithStepContinuationWitness ==
    /\ AlternatingWithStepCase
    /\ input = <<I(1), I(2), I(3), I(4), I(5)>>
    /\ result.nextElements = <<I(6), I(7), I(8)>>

\* the result is the one of the alternating-difference cycle family
DifferenceCycleCase ==
    /\ pc = "returned"
    /\ result.ruleType = "alternating"
    /\ result.confidence = Conf(94)

\* block[j mod p], the block indexed from 0 as in the source
BlockAt(block, j) == block[(j % Len(block)) + 1]

\* C27: when the alternating-difference cycle family (0.94) matches an input
\* of n >= 6 terms with a block of p differences, p in 2..4, the k-th next
\* element (k = 0, 1, 2) adds block[(n - 1 + k) mod p], so the successive
\* differences of the input extended by the next elements still repeat the
\* block in the same phase
DifferenceCyclePhase ==
    (DifferenceCycleCase /\ Len(input) >= 6) =>
        \A block \in {detectAlternatingDifferencePattern(input)[2]} :
            /\ Len(block) \in 2..4
            /\ \A extended \in {input \o result.nextElements} :
                   /\ \A k \in 0..2 :
                          Sub(extended[Len(input) + k + 1], extended[Len(input) + k]) =
                              BlockAt(block, Len(input) - 1 + k)
                   /\ \A j \in 0..(Len(extended) - 2) :
                          Sub(extended[j + 2], extended[j + 1]) = BlockAt(block, j)

DifferenceCyclePhaseWitness ==
    /\ DifferenceCycleCase
    /\ Len(input) = 9
    /\ Len(detectAlternatingDifferencePattern(input)[2]) = 4
    /\ BlockAt(detectAlternatingDifferencePattern(input)[2], 0) #
           BlockAt(detectAlternatingDifferencePattern(input)[2], 1)

\* the pairs of rule type and confidence (in hundredths) a call returns for
\* an integer-valued input
ReturnedPairs ==
    {<<"unknown", 0>>, <<"unknown", 50>>, <<"alternating", 95>>,
     <<"alternating", 94>>, <<"alternating", 98>>, <<"alternating", 89>>,
     <<"arithmetic", 95>>, <<"geometric", 93>>, <<"fibonacci", 90>>,
     <<"square", 92>>, <<"cube", 91>>, <<"hybrid", 90>>,
     <<"difference_pattern", 87>>, <<"difference_pattern", 85>>,
     <<"ratio_pattern", 86>>}

\* C28: for an integer-valued input the rule type and the confidence
\* returned are one of the fifteen pairs of ReturnedPairs; the branches of
\* the specific interleave (0.99), the two-value alternating difference
\* (alternating 0.92), the power family, the first-order difference and
\* ratio patterns and delay+constant (0.90), the interleaved arithmetic
\* (hybrid 0.95) and the hybrid (0.82) are never the one that returns,
\* because an earlier detector accepts first
ReturnedPairsOnly ==
    (pc = "returned" /\ IntegerValued) =>
        /\ \E pair \in ReturnedPairs :
               /\ result.ruleType = pair[1]
               /\ result.confidence = Conf(pair[2])
        /\ result.ruleType \notin {"factorial", "prime", "power"}
        /\ \A b \in {Len(called)} :
               /\ b \notin {3, 10, 13, 17, 18, 19}
               /\ b \in {15, 16} =>
                      result.ruleDescription[2] # "first-order"

ReturnedPairsOnlyWitness ==
    /\ pc = "returned"
    /\ IntegerValued
    /\ checkAlternatingDifference(input)[1]
    /\ Len(input) = 5
    /\ result.ruleType = "alternating"
    /\ result.confidence = Conf(98)

\* an integer-valued input of four terms or more with a constant first
\* difference has been returned
LongArithmeticCase ==
    /\ pc = "returned"
    /\ IntegerValued
    /\ Len(input) >= 4
    /\ \A i \in 2..Len(input) : Sub(input[i], input[i - 1]) = Sub(input[2], input[1])

\* for an integer-valued input the rule type arithmetic is returned for
\* three terms only
ArithmeticOnlyForThree ==
    (pc = "returned" /\ IntegerValued /\ result.ruleType = "arithmetic") =>
        Len(input) = 3

FourTermsNeverUnknown ==
    (Called /\ Len(input) = 4) =>
        /\ pc = "returned"
        /\ result.ruleType # "unknown"
        /\ Len(called) <= 12
        /\ checkAlternatingSequence(input)[1]

FourTermsNeverUnknownWitness ==
    /\ pc = "returned"
    /\ Len(input) = 4
    /\ Len(called) = 12
    /\ result.ruleType = "alternating"
    /\ result.confidence = Conf(89)
    /\ ~detectAlternatingPatternWithStep(input)[1]
    /\ checkDifferencePatterns(input)[1]

===========================================================================
